---- MODULE Spec2Model ----
(***************************************************************************)
(* Posture-Detection: the decision layer of the repository.                *)
(*                                                                         *)
(*   PCLockManager   (pc_lock_manager.py)  absence timer, acknowledgment   *)
(*                   countdown, lock actuator, lock-state reconciliation.  *)
(*   PostureAgent    (posture_agent.py)    posture state, accumulator,     *)
(*                   warning escalation, work sessions.                    *)
(*   PostureAnalyzer (posture_analyzer.py) metrics, window, alert cooldown.*)
(*   PostureCameraManager (camera_manager.py) the consecutive-frame        *)
(*                   counters behind the presence signal.                  *)
(*                                                                         *)
(* The lock manager runs on three threads with no synchronisation: the     *)
(* camera thread (update_person_presence), the GUI thread (set_enabled,    *)
(* the notification's buttons) and the absence-timer thread.  Each thread  *)
(* has a program counter; one action is one statement (or one run of       *)
(* statements that touch no shared field), so every interleaving of the    *)
(* threads at statement level is a behaviour of LockSpec.  The manager's   *)
(* two durations are whole seconds and one poll of either loop of the      *)
(* timer thread stands for one second.  Left out of the manager:           *)
(* last_person_detected, a time stamp no decision reads.                   *)
(*                                                                         *)
(* The agent and the analyzer are modelled one handler per action.  Time   *)
(* is the variable now, in whole seconds; it advances from one reading to  *)
(* the next of a set of readings placed around the thresholds of the code. *)
(* Angles are whole degrees, rounded up.  Of the agent's list of posture    *)
(* events the model keeps the event the last update appended (the list is  *)
(* persisted and never read by a decision).  Left out: the analyzer's      *)
(* last_bad_posture_time (assigned with last_notification_time, never      *)
(* read).                                                                  *)
(*                                                                         *)
(* The agent's sessions are modelled a second time as its callers run      *)
(* them: the GUI starts a thread for every update and calls end_session()  *)
(* on its own thread.  In StoreSpec start_session(), end_session() and the *)
(* gate of process_posture_update are interleaved statement by statement,  *)
(* with the transaction of end_session() and db_lock; durations are 0 or   *)
(* positive and an event list is its length.  StoreSeqSpec is the same     *)
(* agent with one call ending before the next begins, StoreDbSpec with a   *)
(* thread preempted only at db_lock and at its database statements.        *)
(***************************************************************************)
EXTENDS Integers, Sequences, FiniteSets, TLC

\* ------------------------------------------------------------------------
\* Bounds of the model
\* ------------------------------------------------------------------------

\* timer-thread slots: how many _absence_timer_thread executions can coexist
MaxThreads == 2
\* person_absent_threshold as constructed, in polls of the absence loop
AbsentPolls == 2
\* lock_timeout as constructed, in polls of the countdown loop
CountdownPolls == 2
\* the largest number of seconds handed to a setter
MaxSetting == 2

Threads == 1..MaxThreads

VARIABLES
  \* PCLockManager fields
  is_enabled, person_present, notification_shown, notification_window,
  lock_timer_active, pc_locked, last_person_detected_state, timer_thread,
  \* the workstation's real lock state (what is_workstation_locked reports)
  windows_locked,
  \* timer threads: position, polls slept in the current loop, local windows_locked
  t_pc, t_elapsed, t_wl,
  \* camera thread inside update_person_presence: position, argument, local
  c_pc, c_arg, c_wl,
  \* GUI thread inside lock_pc: position
  g_pc,
  \* history: loop tests of the timer thread since the workstation was locked
  \* from outside with no presence update since (-1: no such episode)
  ext_polls

mgrVars == <<is_enabled, person_present, notification_shown, notification_window,
             lock_timer_active, pc_locked, last_person_detected_state, timer_thread>>
thrVars == <<t_pc, t_elapsed, t_wl>>
camVars == <<c_pc, c_arg, c_wl>>
VARIABLES
  \* PCLockManager fields: the two durations, in seconds; a poll of either loop of
  \* the timer thread stands for one second
  person_absent_threshold, lock_timeout,
  \* history: the arguments of the last set_person_absent_threshold and
  \* set_lock_timeout (-1: never called)
  set_args,
  \* history of a timer execution: what cancelled it ("no": nothing yet), and
  \* whether it built the notification window; the executions that were alive
  \* when "Lock Now" was pressed
  cancelled, t_shown, locked_now,
  \* history of the lock_pc() call that has not returned yet: what LockWorkStation()
  \* did, whether simulate_win_l() was called, whether an exception left lock_pc()
  attempt,
  \* history of the update_person_presence call in progress or last made: whether
  \* it began in the state PRESENT, and whether it issued the screen-wake signal
  c_pre, c_woke

lockExt == <<person_absent_threshold, lock_timeout, set_args, cancelled, t_shown,
             locked_now, attempt, c_pre, c_woke>>

lockVars == <<mgrVars, windows_locked, thrVars, camVars, g_pc, ext_polls, lockExt>>

VARIABLES
  \* the clock: the last reading of time.time(), in seconds since the program's
  \* objects were constructed
  now

VARIABLES
  \* PostureAgent fields
  is_active, current_state, last_state_change, bad_posture_accumulator,
  last_warning_level,
  \* current_session: NoSession or the WorkSession's start_time and total_warnings
  current_session,
  \* the rows of table work_sessions, oldest first
  work_sessions,
  \* what the last process_posture_update returned: -1 for None, else the warning
  \* index; -2 when the clock advanced or a session call was made since
  ret,
  \* history of the bad run in progress within the session: warnings returned, and
  \* updates delivered with a bad duration of at least the first threshold
  run_warnings, run_late_updates,
  \* history of the last process_posture_update, while the clock has not moved: the
  \* verdict any(violations.values()) it was given ("none": it returned at once or
  \* there was no call), and the PostureEvent it appended to the session
  verdict, event

agentVars == <<is_active, current_state, last_state_change,
               bad_posture_accumulator, last_warning_level, current_session,
               work_sessions, ret, run_warnings, run_late_updates, verdict, event>>

VARIABLES
  \* the keypoints of the frame at hand, and whether analyze_keypoints ran on them
  keypoints, analyzed,
  \* what that call returned (a PostureMetrics) and the exception it let out
  metrics, raised,
  \* PostureAnalyzer fields
  metrics_window, last_notification_time,
  \* what the last should_trigger_alert returned: "none" before the first call
  alert,
  \* history: the clock readings at which should_trigger_alert returned true
  alert_times

analyzerVars == <<keypoints, analyzed, metrics, raised, metrics_window,
                  last_notification_time, alert, alert_times>>

\* worker threads of the GUI, each inside one _process_agent_update
MaxWorkers == 1
\* the events one session collects
MaxEvents == 1

\* the GUI thread and its workers
GuiThread == 0
Workers == 1..MaxWorkers
Callers == {GuiThread} \cup Workers
\* the WorkSession objects that can be referred to at one time: by current_session
\* and by each thread that is writing one to the database
SessionIds == 1..(MaxWorkers + 2)

VARIABLES
  \* PostureAgent fields as its callers' threads see them, one statement at a time:
  \* current_session (0 for None, else the WorkSession object), is_active,
  \* bad_posture_accumulator (0, or 1 for any positive time), last_warning_level
  s_current_session, s_is_active, s_accumulator, s_warning_level,
  \* the WorkSession objects: events appended, total_warnings, end_time set,
  \* total_bad_posture_duration (0, or 1 for any positive time); and, as history,
  \* the rows of work_sessions committed for the object
  s_objects,
  \* db_lock: the thread that holds it, -1 when free
  db_lock,
  \* the database: the last row committed to work_sessions, with the number of
  \* its event rows
  db_last,
  \* the open transaction of a thread: the WorkSession whose row it inserted (0:
  \* none yet) and the row's values, the event rows inserted, and the object whose
  \* events it iterates
  txn,
  \* the call a thread is in: position ("done" when the call has ended and its
  \* caller has the outcome in hand), the return positions of the agent's own
  \* callers, the method called, and how it ended
  k_pc, k_stack, k_op, k_result,
  \* the camera has been stopped by toggle_monitoring
  stopped,
  \* history: a database statement ran while another thread had inserted a session
  \* row and not yet committed it
  interleaved

storeVars == <<s_current_session, s_is_active, s_accumulator, s_warning_level,
               s_objects, db_lock, db_last, txn,
               k_pc, k_stack, k_op, k_result, stopped, interleaved>>

\* the frames the camera layer counts at most in one run of equal detections
MaxFrames == 7

VARIABLES
  \* PostureCameraManager: the two consecutive-frame counters and whether
  \* person_detection_callback is set
  person_frames, no_person_frames, person_detection_callback,
  \* history: the detections of the last frames, the newest last, and the callback
  \* update_person_detection_state made on the newest ("none", "true", "false")
  frame_history, callback_made

cameraVars == <<person_frames, no_person_frames, person_detection_callback,
                frame_history, callback_made>>

\* what the actions of one component leave alone (the clock apart)
nonLockVars == <<now, agentVars, analyzerVars, storeVars, cameraVars>>
nonAgentVars == <<lockVars, analyzerVars, storeVars, cameraVars>>
nonAnalyzerVars == <<lockVars, agentVars, storeVars, cameraVars>>
nonStoreVars == <<lockVars, now, agentVars, analyzerVars, cameraVars>>
nonCameraVars == <<lockVars, now, agentVars, analyzerVars, storeVars>>

vars == <<lockVars, now, agentVars, analyzerVars, storeVars, cameraVars>>

\* ------------------------------------------------------------------------
\* PCLockManager: construction
\* ------------------------------------------------------------------------

\* no lock_pc() call is about to return
NoAttempt == [primary |-> "none", fallback_called |-> FALSE, raised |-> FALSE]

LockInit ==
  /\ now = 0
  /\ is_enabled = FALSE
  /\ person_present = TRUE
  /\ notification_shown = FALSE
  /\ notification_window = FALSE
  /\ lock_timer_active = FALSE
  /\ pc_locked = FALSE
  /\ last_person_detected_state = "unset"
  /\ timer_thread = 0
  /\ windows_locked = FALSE
  /\ t_pc = [t \in Threads |-> "dead"]
  /\ t_elapsed = [t \in Threads |-> 0]
  /\ t_wl = [t \in Threads |-> FALSE]
  /\ c_pc = "idle"
  /\ c_arg = FALSE
  /\ c_wl = FALSE
  /\ g_pc = "idle"
  /\ ext_polls = -1
  /\ person_absent_threshold = AbsentPolls
  /\ lock_timeout = CountdownPolls
  /\ set_args = <<-1, -1>>
  /\ cancelled = [t \in Threads |-> "no"]
  /\ t_shown = [t \in Threads |-> FALSE]
  /\ locked_now = {}
  /\ attempt = NoAttempt
  /\ c_pre = FALSE
  /\ c_woke = FALSE

\* ------------------------------------------------------------------------
\* PostureAgent: construction
\* ------------------------------------------------------------------------

NoSession == [open |-> FALSE, start_time |-> 0, total_warnings |-> 0]

\* no PostureEvent was appended
NoEvent == [timestamp |-> -1, state |-> "none", duration |-> 0]

AgentInit ==
  /\ verdict = "none"
  /\ event = NoEvent
  /\ is_active = FALSE
  /\ current_state = "good"
  /\ last_state_change = 0
  /\ bad_posture_accumulator = 0
  /\ last_warning_level = -1
  /\ current_session = NoSession
  /\ work_sessions = <<>>
  /\ ret = -2
  /\ run_warnings = 0
  /\ run_late_updates = 0

\* ------------------------------------------------------------------------
\* PostureAnalyzer: construction
\* ------------------------------------------------------------------------

\* time.time() at construction, in seconds since the epoch: last_notification_time
\* starts at epoch 0, that is at -ConstructionTime on the model's clock
ConstructionTime == 1000

\* the landmark indices the metrics read: NOSE, LEFT_EAR, RIGHT_EAR, LEFT_SHOULDER,
\* RIGHT_SHOULDER, LEFT_HIP, RIGHT_HIP
NOSE == 0
LEFT_EAR == 7
RIGHT_EAR == 8
LEFT_SHOULDER == 11
RIGHT_SHOULDER == 12
LEFT_HIP == 23
RIGHT_HIP == 24
Landmarks == {NOSE, LEFT_EAR, RIGHT_EAR, LEFT_SHOULDER, RIGHT_SHOULDER, LEFT_HIP, RIGHT_HIP}

\* a keypoints value: None (absent), or an array of `rows` landmarks with `cols`
\* numbers each, of which `at` gives the first two of the rows the metrics read
NoKeypoints == [absent |-> TRUE, rows |-> 0, cols |-> 0, at |-> [i \in Landmarks |-> <<0, 0>>]]

NoMetrics ==
  [neck_tilt_angle |-> -1, head_pitch |-> -1, torso_lean |-> -1,
   shoulder_asymmetry |-> -1, timestamp |-> -1]

AnalyzerInit ==
  /\ keypoints = NoKeypoints
  /\ analyzed = FALSE
  /\ metrics = NoMetrics
  /\ raised = "none"
  /\ metrics_window = <<>>
  /\ last_notification_time = -ConstructionTime
  /\ alert = "none"
  /\ alert_times = <<>>

\* the program after construction
\* ------------------------------------------------------------------------
\* PostureAgent and its callers' threads: construction
\* ------------------------------------------------------------------------

\* WorkSession(start_time=...): no end_time, no events, no warnings
NewWorkSession ==
  [events |-> 0, total_warnings |-> 0, end_time_set |-> FALSE,
   total_bad_posture_duration |-> 0, rows |-> 0]

NoTxn == [row |-> 0, events |-> 0, of |-> 0, total_bad_posture_duration |-> 0,
          total_warnings |-> 0]

\* no row of work_sessions was committed for a WorkSession
NoRow == [events |-> 0, total_bad_posture_duration |-> 0, total_warnings |-> 0]

StoreInit ==
  /\ s_current_session = 0
  /\ s_is_active = FALSE
  /\ s_accumulator = 0
  /\ s_warning_level = -1
  /\ s_objects = [i \in SessionIds |-> NewWorkSession]
  /\ db_lock = -1
  /\ db_last = NoRow
  /\ txn = [t \in Callers |-> NoTxn]
  /\ k_pc = [t \in Callers |-> "idle"]
  /\ k_stack = [t \in Callers |-> <<>>]
  /\ k_op = [t \in Callers |-> "none"]
  /\ k_result = [t \in Callers |-> "none"]
  /\ stopped = TRUE
  /\ interleaved = FALSE

\* PostureCameraManager.__init__
CameraInit ==
  /\ person_frames = 0
  /\ no_person_frames = 0
  /\ person_detection_callback = FALSE
  /\ frame_history = <<>>
  /\ callback_made = "none"

Init == LockInit /\ AgentInit /\ AnalyzerInit /\ StoreInit /\ CameraInit

\* ------------------------------------------------------------------------
\* PCLockManager: helpers shared by the threads
\* ------------------------------------------------------------------------

\* threading.Thread.is_alive() of self.timer_thread
timer_thread_is_alive == timer_thread # 0 /\ t_pc[timer_thread] # "dead"

AliveThreads == {t \in Threads : t_pc[t] # "dead"}

\* close_notification(): destroy the window, notification_shown = False
close_notification ==
  /\ notification_window' = FALSE
  /\ notification_shown' = FALSE

\* a variant of reset_timer() that leaves lock_timer_active as it is
reset_timer_KeepsFlag ==
  /\ UNCHANGED lock_timer_active
  /\ close_notification

\* reset_timer(): lock_timer_active = False, close_notification(), a 0.2 s sleep
reset_timer ==
  /\ lock_timer_active' = FALSE
  /\ close_notification

\* check_windows_lock_status(), after is_workstation_locked() returned wl
check_windows_lock_status(wl) ==
  IF wl /\ ~pc_locked
    THEN /\ pc_locked' = TRUE
         /\ IF lock_timer_active
              THEN reset_timer
              ELSE UNCHANGED <<lock_timer_active, notification_shown, notification_window>>
    ELSE IF ~wl /\ pc_locked
      THEN /\ pc_locked' = FALSE
           /\ UNCHANGED <<lock_timer_active, notification_shown, notification_window>>
      ELSE UNCHANGED <<pc_locked, lock_timer_active, notification_shown, notification_window>>

\* the history variable: a loop test of a timer thread counts one poll
PollSeen == IF ext_polls >= 0 /\ ext_polls < 3 THEN ext_polls + 1 ELSE ext_polls

\* ------------------------------------------------------------------------
\* Camera thread: update_person_presence(person_detected)
\* ------------------------------------------------------------------------

StateOf(d) == IF d THEN "present" ELSE "absent"

\* the call is made: current_time = time.time()
\* the timer executions that have not ended
Alive(t) == t_pc[t] # "dead"

\* the absence loop of _absence_timer_thread, before person_absent_threshold elapsed
InAbsenceWait(t) ==
  t_pc[t] \in {"p1_loop", "p1_poll", "p1_reconcile", "p1_test"}
    /\ t_elapsed[t] < person_absent_threshold

\* the countdown loop of _absence_timer_thread
InCountdown(t) == t_pc[t] \in {"p2_loop", "p2_sleep"}

\* history: the executions in hit get the mark why, unless they already have one
Cancel(hit, why) ==
  cancelled' = [t \in Threads |-> IF t \in hit /\ cancelled[t] = "no" THEN why ELSE cancelled[t]]

\* the state PRESENT of the manager: enabled, somebody there, nothing under way
StatePresent ==
  is_enabled /\ person_present /\ ~pc_locked /\ ~lock_timer_active /\ ~notification_shown

CamBegin(d) ==
  /\ c_pc = "idle"
  /\ c_arg' = d
  /\ c_pre' = StatePresent
  /\ c_woke' = FALSE
  /\ c_pc' = "u_poll"
  /\ ext_polls' = -1
  /\ UNCHANGED <<mgrVars, windows_locked, thrVars, c_wl, g_pc>>
  /\ UNCHANGED <<person_absent_threshold, lock_timeout, set_args, cancelled, t_shown, locked_now, attempt>>  \* lockExt
  /\ UNCHANGED nonLockVars

\* check_windows_lock_status(): windows_locked = self.is_workstation_locked()
CamPoll ==
  /\ c_pc = "u_poll"
  /\ c_wl' = windows_locked
  /\ c_pc' = "u_reconcile"
  /\ UNCHANGED <<mgrVars, windows_locked, thrVars, c_arg, g_pc, ext_polls>>
  /\ UNCHANGED <<person_absent_threshold, lock_timeout, set_args, cancelled, t_shown, locked_now, attempt, c_pre, c_woke>>  \* lockExt
  /\ UNCHANGED nonLockVars

\* check_windows_lock_status(): the comparison with pc_locked and its effects
CamReconcile ==
  /\ c_pc = "u_reconcile"
  /\ check_windows_lock_status(c_wl)
  /\ c_pc' = "u_debounce"
  /\ UNCHANGED <<is_enabled, person_present, last_person_detected_state, timer_thread,
                 windows_locked, thrVars, c_arg, c_wl, g_pc, ext_polls>>
  /\ UNCHANGED <<person_absent_threshold, lock_timeout, set_args, cancelled, t_shown, locked_now, attempt, c_pre, c_woke>>  \* lockExt
  /\ UNCHANGED nonLockVars

\* the identical-reading short-circuit, else _last_person_detected_state = reading
\* a variant of the test below that never finds a repeated reading
ReadingRepeated_Never == FALSE

\* hasattr(self, "_last_person_detected_state")
\*   and self._last_person_detected_state == person_detected
ReadingRepeated == last_person_detected_state = StateOf(c_arg)

CamDebounce ==
  /\ c_pc = "u_debounce"
  /\ IF ReadingRepeated
       THEN /\ c_pc' = "idle"
            /\ UNCHANGED last_person_detected_state
       ELSE /\ last_person_detected_state' = StateOf(c_arg)
            /\ c_pc' = IF c_arg THEN "u_present" ELSE "u_absent"
  /\ UNCHANGED <<is_enabled, person_present, notification_shown, notification_window,
                 lock_timer_active, pc_locked, timer_thread,
                 windows_locked, thrVars, c_arg, c_wl, g_pc, ext_polls>>
  /\ UNCHANGED <<person_absent_threshold, lock_timeout, set_args, cancelled, t_shown, locked_now, attempt, c_pre, c_woke>>  \* lockExt
  /\ UNCHANGED nonLockVars

\* a variant of the test below that wakes the screen on every accepted present reading
WakeWanted_Always == TRUE

\* if not self.person_present: self.wake_screen_mouse_only()
WakeWanted == ~person_present

\* person_detected: wake the screen if absent, person_present = True, pc_locked = False
CamPresent ==
  /\ c_pc = "u_present"
  /\ c_woke' = WakeWanted
  /\ person_present' = TRUE
  /\ pc_locked' = FALSE
  /\ c_pc' = "u_present_reset"
  /\ UNCHANGED <<is_enabled, notification_shown, notification_window, lock_timer_active,
                 last_person_detected_state, timer_thread,
                 windows_locked, thrVars, c_arg, c_wl, g_pc, ext_polls>>
  /\ UNCHANGED <<person_absent_threshold, lock_timeout, set_args, cancelled, t_shown, locked_now, attempt, c_pre>>  \* lockExt
  /\ UNCHANGED nonLockVars

\* person_detected: if self.lock_timer_active: self.reset_timer()
CamPresentReset ==
  /\ c_pc = "u_present_reset"
  /\ IF lock_timer_active
       THEN reset_timer
       ELSE UNCHANGED <<lock_timer_active, notification_shown, notification_window>>
  /\ Cancel({t \in Threads : InAbsenceWait(t)}, "presence")
  /\ c_pc' = "idle"
  /\ UNCHANGED <<is_enabled, person_present, pc_locked, last_person_detected_state,
                 timer_thread, windows_locked, thrVars, c_arg, c_wl, g_pc, ext_polls>>
  /\ UNCHANGED <<person_absent_threshold, lock_timeout, set_args, t_shown, locked_now, attempt, c_pre, c_woke>>  \* lockExt
  /\ UNCHANGED nonLockVars

\* a variant of the condition below that asks for an active timer
AbsenceStartWanted_TimerFlagInverted ==
  is_enabled /\ lock_timer_active /\ ~notification_shown /\ ~pc_locked

\* the condition under which update_person_presence(False) calls start_absence_timer
AbsenceStartWanted ==
  is_enabled /\ ~lock_timer_active /\ ~notification_shown /\ ~pc_locked

\* not person_detected: person_present = False and the decision to start the timer
CamAbsent ==
  /\ c_pc = "u_absent"
  /\ IF person_present
       THEN /\ person_present' = FALSE
            /\ c_pc' = IF AbsenceStartWanted THEN "u_start" ELSE "idle"
       ELSE /\ c_pc' = "idle"
            /\ UNCHANGED person_present
  /\ UNCHANGED <<is_enabled, notification_shown, notification_window, lock_timer_active,
                 pc_locked, last_person_detected_state, timer_thread,
                 windows_locked, thrVars, c_arg, c_wl, g_pc, ext_polls>>
  /\ UNCHANGED <<person_absent_threshold, lock_timeout, set_args, cancelled, t_shown, locked_now, attempt, c_pre, c_woke>>  \* lockExt
  /\ UNCHANGED nonLockVars

\* a variant of the early returns below without the is_alive() test
StartRefused_NoAliveCheck ==
  ~is_enabled \/ person_present \/ pc_locked \/ lock_timer_active \/ notification_shown

\* start_absence_timer(): the two early returns
StartRefused ==
  \/ timer_thread_is_alive
  \/ ~is_enabled \/ person_present \/ pc_locked \/ lock_timer_active \/ notification_shown

\* the slot the next threading.Thread(...) takes
FreeSlot == CHOOSE t \in Threads : t_pc[t] = "dead" /\ \A u \in Threads : t_pc[u] = "dead" => t <= u

\* start_absence_timer(), called from update_person_presence: the two early returns
CamStart ==
  /\ c_pc = "u_start"
  /\ c_pc' = IF StartRefused THEN "idle" ELSE "u_spawn"
  /\ UNCHANGED <<mgrVars, windows_locked, thrVars, c_arg, c_wl, g_pc, ext_polls>>
  /\ UNCHANGED <<person_absent_threshold, lock_timeout, set_args, cancelled, t_shown, locked_now, attempt, c_pre, c_woke>>  \* lockExt
  /\ UNCHANGED nonLockVars

\* start_absence_timer(): lock_timer_active = True and the new thread is started
CamSpawn ==
  /\ c_pc = "u_spawn"
  /\ c_pc' = "idle"
  /\ \E t \in Threads : t_pc[t] = "dead"
  /\ cancelled' = [cancelled EXCEPT ![FreeSlot] = "no"]
  /\ t_shown' = [t_shown EXCEPT ![FreeSlot] = FALSE]
  /\ locked_now' = locked_now \ {FreeSlot}
  /\ lock_timer_active' = TRUE
  /\ timer_thread' = FreeSlot
  /\ t_pc' = [t_pc EXCEPT ![FreeSlot] = "p1_loop"]
  /\ t_elapsed' = [t_elapsed EXCEPT ![FreeSlot] = 0]
  /\ UNCHANGED <<is_enabled, person_present, notification_shown, notification_window,
                 pc_locked, last_person_detected_state,
                 windows_locked, t_wl, c_arg, c_wl, g_pc, ext_polls>>
  /\ UNCHANGED <<person_absent_threshold, lock_timeout, set_args, attempt, c_pre, c_woke>>  \* lockExt
  /\ UNCHANGED nonLockVars

CamStep ==
  \/ CamPoll \/ CamReconcile \/ CamDebounce \/ CamPresent \/ CamPresentReset
  \/ CamAbsent \/ CamStart \/ CamSpawn

\* ------------------------------------------------------------------------
\* Timer thread: _absence_timer_thread
\* ------------------------------------------------------------------------

Goto(t, pc) == t_pc' = [t_pc EXCEPT ![t] = pc]

\* while time.time() - start_time < person_absent_threshold and lock_timer_active
AbsenceLoopContinues(t) == t_elapsed[t] < person_absent_threshold /\ lock_timer_active

TimerLoop1(t) ==
  /\ t_pc[t] = "p1_loop"
  /\ Goto(t, IF AbsenceLoopContinues(t) THEN "p1_poll" ELSE "chk_active")
  /\ ext_polls' = PollSeen
  /\ UNCHANGED <<mgrVars, windows_locked, t_elapsed, t_wl, camVars, g_pc>>
  /\ UNCHANGED <<person_absent_threshold, lock_timeout, set_args, cancelled, t_shown, locked_now, attempt, c_pre, c_woke>>  \* lockExt
  /\ UNCHANGED nonLockVars

\* check_windows_lock_status(): windows_locked = self.is_workstation_locked()
TimerPoll(t) ==
  /\ t_pc[t] = "p1_poll"
  /\ t_wl' = [t_wl EXCEPT ![t] = windows_locked]
  /\ Goto(t, "p1_reconcile")
  /\ UNCHANGED <<mgrVars, windows_locked, t_elapsed, camVars, g_pc, ext_polls>>
  /\ UNCHANGED <<person_absent_threshold, lock_timeout, set_args, cancelled, t_shown, locked_now, attempt, c_pre, c_woke>>  \* lockExt
  /\ UNCHANGED nonLockVars

\* check_windows_lock_status(): the comparison with pc_locked and its effects
TimerReconcile(t) ==
  /\ t_pc[t] = "p1_reconcile"
  /\ check_windows_lock_status(t_wl[t])
  /\ Goto(t, "p1_test")
  /\ UNCHANGED <<is_enabled, person_present, last_person_detected_state, timer_thread,
                 windows_locked, t_elapsed, t_wl, camVars, g_pc, ext_polls>>
  /\ UNCHANGED <<person_absent_threshold, lock_timeout, set_args, cancelled, t_shown, locked_now, attempt, c_pre, c_woke>>  \* lockExt
  /\ UNCHANGED nonLockVars

\* if self.person_present or self.pc_locked: return; else time.sleep(0.1)
TimerTest(t) ==
  /\ t_pc[t] = "p1_test"
  /\ IF person_present \/ pc_locked
       THEN /\ Goto(t, "finally")
            /\ UNCHANGED t_elapsed
       ELSE /\ Goto(t, "p1_loop")
            /\ t_elapsed' = [t_elapsed EXCEPT ![t] = @ + 1]
  /\ UNCHANGED <<mgrVars, windows_locked, t_wl, camVars, g_pc, ext_polls>>
  /\ UNCHANGED <<person_absent_threshold, lock_timeout, set_args, cancelled, t_shown, locked_now, attempt, c_pre, c_woke>>  \* lockExt
  /\ UNCHANGED nonLockVars

\* after the absence loop: if not self.lock_timer_active: return
TimerCheckActive(t) ==
  /\ t_pc[t] = "chk_active"
  /\ Goto(t, IF ~lock_timer_active THEN "finally" ELSE "chk_present")
  /\ UNCHANGED <<mgrVars, windows_locked, t_elapsed, t_wl, camVars, g_pc, ext_polls>>
  /\ UNCHANGED <<person_absent_threshold, lock_timeout, set_args, cancelled, t_shown, locked_now, attempt, c_pre, c_woke>>  \* lockExt
  /\ UNCHANGED nonLockVars

\* after the absence loop: if self.person_present: return
TimerCheckPresent(t) ==
  /\ t_pc[t] = "chk_present"
  /\ Goto(t, IF person_present THEN "finally" ELSE "chk_locked")
  /\ UNCHANGED <<mgrVars, windows_locked, t_elapsed, t_wl, camVars, g_pc, ext_polls>>
  /\ UNCHANGED <<person_absent_threshold, lock_timeout, set_args, cancelled, t_shown, locked_now, attempt, c_pre, c_woke>>  \* lockExt
  /\ UNCHANGED nonLockVars

\* after the absence loop: if self.pc_locked: return
TimerCheckLocked(t) ==
  /\ t_pc[t] = "chk_locked"
  /\ Goto(t, IF pc_locked THEN "finally" ELSE "show")
  /\ UNCHANGED <<mgrVars, windows_locked, t_elapsed, t_wl, camVars, g_pc, ext_polls>>
  /\ UNCHANGED <<person_absent_threshold, lock_timeout, set_args, cancelled, t_shown, locked_now, attempt, c_pre, c_woke>>  \* lockExt
  /\ UNCHANGED nonLockVars

\* show_acknowledgment_notification(): the window is built, notification_shown = True;
\* countdown_start = time.time()
TimerShow(t) ==
  /\ t_pc[t] = "show"
  /\ IF notification_window
       THEN UNCHANGED <<notification_window, notification_shown, t_shown>>
       ELSE /\ notification_window' = TRUE
            /\ notification_shown' = TRUE
            /\ t_shown' = [t_shown EXCEPT ![t] = TRUE]
  /\ Goto(t, "p2_loop")
  /\ t_elapsed' = [t_elapsed EXCEPT ![t] = 0]
  /\ UNCHANGED <<is_enabled, person_present, lock_timer_active, pc_locked,
                 last_person_detected_state, timer_thread,
                 windows_locked, t_wl, camVars, g_pc, ext_polls>>
  /\ UNCHANGED <<person_absent_threshold, lock_timeout, set_args, cancelled, locked_now, attempt, c_pre, c_woke>>  \* lockExt
  /\ UNCHANGED nonLockVars

\* show_acknowledgment_notification(): building the window raises, the error is logged
TimerShowFails(t) ==
  /\ t_pc[t] = "show"
  /\ ~notification_window
  /\ Goto(t, "p2_loop")
  /\ t_elapsed' = [t_elapsed EXCEPT ![t] = 0]
  /\ UNCHANGED <<mgrVars, windows_locked, t_wl, camVars, g_pc, ext_polls>>
  /\ UNCHANGED <<person_absent_threshold, lock_timeout, set_args, cancelled, t_shown, locked_now, attempt, c_pre, c_woke>>  \* lockExt
  /\ UNCHANGED nonLockVars

\* a variant of the test below that does not read lock_timer_active
CountdownContinues_TimeOnly(t) == t_elapsed[t] < lock_timeout /\ notification_shown

\* while time.time() - countdown_start < lock_timeout and lock_timer_active
\*       and notification_shown
CountdownContinues(t) ==
  t_elapsed[t] < lock_timeout /\ lock_timer_active /\ notification_shown

TimerLoop2(t) ==
  /\ t_pc[t] = "p2_loop"
  /\ Goto(t, IF CountdownContinues(t) THEN "p2_sleep" ELSE "p2_after")
  /\ ext_polls' = PollSeen
  /\ UNCHANGED <<mgrVars, windows_locked, t_elapsed, t_wl, camVars, g_pc>>
  /\ UNCHANGED <<person_absent_threshold, lock_timeout, set_args, cancelled, t_shown, locked_now, attempt, c_pre, c_woke>>  \* lockExt
  /\ UNCHANGED nonLockVars

\* the countdown's body: countdown_callback(int(remaining)); time.sleep(1.0)
TimerSleep2(t) ==
  /\ t_pc[t] = "p2_sleep"
  /\ Goto(t, "p2_loop")
  /\ t_elapsed' = [t_elapsed EXCEPT ![t] = @ + 1]
  /\ UNCHANGED <<mgrVars, windows_locked, t_wl, camVars, g_pc, ext_polls>>
  /\ UNCHANGED <<person_absent_threshold, lock_timeout, set_args, cancelled, t_shown, locked_now, attempt, c_pre, c_woke>>  \* lockExt
  /\ UNCHANGED nonLockVars

\* a variant of the test below that does not ask for the notification
LockDecision_TimerFlagOnly == lock_timer_active

\* a variant of the test below that locks whenever the countdown loop is left
LockDecision_Unconditional == TRUE

\* the test that guards the timer's lock_pc()
LockDecision == lock_timer_active /\ notification_shown

\* if self.lock_timer_active and self.notification_shown: self.lock_pc()
TimerAfter2(t) ==
  /\ t_pc[t] = "p2_after"
  /\ Goto(t, IF LockDecision THEN "lk_set" ELSE "finally")
  /\ UNCHANGED <<mgrVars, windows_locked, t_elapsed, t_wl, camVars, g_pc, ext_polls>>
  /\ UNCHANGED <<person_absent_threshold, lock_timeout, set_args, cancelled, t_shown, locked_now, attempt, c_pre, c_woke>>  \* lockExt
  /\ UNCHANGED nonLockVars

\* lock_pc(): self.pc_locked = True
lock_pc_set ==
  /\ pc_locked' = TRUE
  /\ UNCHANGED <<is_enabled, person_present, notification_shown, notification_window,
                 lock_timer_active, last_person_detected_state, timer_thread, windows_locked>>

\* lock_pc(): self.reset_timer()
lock_pc_reset ==
  /\ reset_timer
  /\ UNCHANGED <<is_enabled, person_present, pc_locked, last_person_detected_state,
                 timer_thread, windows_locked>>

\* what LockWorkStation() can do, and what the rundll32 call of simulate_win_l() can do
PrimaryOutcomes == {"true", "false", "raises"}
FallbackOutcomes == {"ok", "raises"}

\* simulate_win_l(): subprocess.run(..., check=True) inside try / except Exception
simulate_win_l(fallback) == [locked |-> fallback = "ok", raised |-> FALSE]

\* a variant of the attempt below whose except clause re-raises instead of falling back
lock_pc_attempt_NoFallbackOnRaise(primary, fallback) ==
  IF primary = "true"
    THEN [locked |-> TRUE, fallback_called |-> FALSE, raised |-> FALSE]
    ELSE IF primary = "false"
      THEN [locked |-> simulate_win_l(fallback).locked, fallback_called |-> TRUE,
            raised |-> simulate_win_l(fallback).raised]
      ELSE [locked |-> FALSE, fallback_called |-> FALSE, raised |-> TRUE]

\* lock_pc(): result = self.LockWorkStation(); the else branch and the except clause
\* both call simulate_win_l()
lock_pc_attempt(primary, fallback) ==
  IF primary = "true"
    THEN [locked |-> TRUE, fallback_called |-> FALSE, raised |-> FALSE]
    ELSE [locked |-> simulate_win_l(fallback).locked, fallback_called |-> TRUE,
          raised |-> simulate_win_l(fallback).raised]

\* history: the attempt as the caller of lock_pc() sees it
Attempted(primary, fallback) ==
  attempt' = [primary |-> primary,
              fallback_called |-> lock_pc_attempt(primary, fallback).fallback_called,
              raised |-> lock_pc_attempt(primary, fallback).raised]

\* lock_pc(): LockWorkStation(), and simulate_win_l() when it fails; ok: one of them locked
lock_pc_call(ok) ==
  /\ windows_locked' = (windows_locked \/ ok)
  /\ UNCHANGED mgrVars

TimerLockSet(t) ==
  /\ t_pc[t] = "lk_set"
  /\ lock_pc_set
  /\ Goto(t, "lk_reset")
  /\ UNCHANGED <<t_elapsed, t_wl, camVars, g_pc, ext_polls>>
  /\ UNCHANGED <<person_absent_threshold, lock_timeout, set_args, cancelled, t_shown, locked_now, attempt, c_pre, c_woke>>  \* lockExt
  /\ UNCHANGED nonLockVars

TimerLockReset(t) ==
  /\ t_pc[t] = "lk_reset"
  /\ lock_pc_reset
  /\ Goto(t, "lk_call")
  /\ UNCHANGED <<t_elapsed, t_wl, camVars, g_pc, ext_polls>>
  /\ UNCHANGED <<person_absent_threshold, lock_timeout, set_args, cancelled, t_shown, locked_now, attempt, c_pre, c_woke>>  \* lockExt
  /\ UNCHANGED nonLockVars

TimerLockCall(t) ==
  /\ t_pc[t] = "lk_call"
  /\ \E primary \in PrimaryOutcomes, fallback \in FallbackOutcomes :
       /\ lock_pc_call(lock_pc_attempt(primary, fallback).locked)
       /\ Attempted(primary, fallback)
  /\ Goto(t, "lk_done")
  /\ UNCHANGED <<t_elapsed, t_wl, camVars, g_pc, ext_polls>>
  /\ UNCHANGED <<person_absent_threshold, lock_timeout, set_args, cancelled, t_shown, locked_now, c_pre, c_woke>>  \* lockExt
  /\ UNCHANGED nonLockVars

\* lock_pc() returns into the timer thread
TimerLockReturn(t) ==
  /\ t_pc[t] = "lk_done"
  /\ attempt' = NoAttempt
  /\ Goto(t, "finally")
  /\ UNCHANGED <<mgrVars, windows_locked, t_elapsed, t_wl, camVars, g_pc, ext_polls>>
  /\ UNCHANGED <<person_absent_threshold, lock_timeout, set_args, cancelled, t_shown, locked_now, c_pre, c_woke>>  \* lockExt
  /\ UNCHANGED nonLockVars

\* finally: self.lock_timer_active = False; self.close_notification(); the thread ends
TimerFinally(t) ==
  /\ t_pc[t] = "finally"
  /\ lock_timer_active' = FALSE
  /\ close_notification
  /\ Goto(t, "dead")
  /\ cancelled' = [cancelled EXCEPT ![t] = "no"]
  /\ t_shown' = [t_shown EXCEPT ![t] = FALSE]
  /\ locked_now' = locked_now \ {t}
  /\ t_elapsed' = [t_elapsed EXCEPT ![t] = 0]
  /\ t_wl' = [t_wl EXCEPT ![t] = FALSE]
  /\ UNCHANGED <<is_enabled, person_present, pc_locked, last_person_detected_state,
                 timer_thread, windows_locked, camVars, g_pc, ext_polls>>
  /\ UNCHANGED <<person_absent_threshold, lock_timeout, set_args, attempt, c_pre, c_woke>>  \* lockExt
  /\ UNCHANGED nonLockVars

\* the statements of the timer thread that do not end in a sleep
TimerRun(t) ==
  \/ TimerLoop1(t) \/ TimerPoll(t) \/ TimerReconcile(t)
  \/ TimerCheckActive(t) \/ TimerCheckPresent(t) \/ TimerCheckLocked(t)
  \/ TimerShow(t) \/ TimerLoop2(t) \/ TimerAfter2(t)
  \/ TimerLockSet(t) \/ TimerLockReset(t) \/ TimerLockCall(t) \/ TimerLockReturn(t)
  \/ TimerFinally(t)

TimerStep(t) == TimerRun(t) \/ TimerTest(t) \/ TimerSleep2(t)

\* ------------------------------------------------------------------------
\* GUI thread: set_enabled and the notification's three buttons
\* ------------------------------------------------------------------------

\* set_enabled(enabled)
SetEnabled(enabled) ==
  /\ g_pc = "idle"
  /\ is_enabled' = enabled
  /\ IF ~enabled
       THEN /\ pc_locked' = FALSE
            /\ reset_timer
            /\ last_person_detected_state' = "unset"
            /\ Cancel({t \in Threads : Alive(t)}, "disable")
       ELSE UNCHANGED <<pc_locked, lock_timer_active, notification_shown,
                        notification_window, last_person_detected_state, cancelled>>
  /\ UNCHANGED <<person_present, timer_thread, windows_locked, thrVars, camVars, g_pc,
                 ext_polls>>
  /\ UNCHANGED <<person_absent_threshold, lock_timeout, set_args, t_shown, locked_now, attempt, c_pre, c_woke>>  \* lockExt
  /\ UNCHANGED nonLockVars

\* the seconds a caller may hand to a setter: below, at and above the floor of 1
Settings == 0..MaxSetting

\* a variant of the clamp below without the floor
ClampSeconds_NoFloor(seconds) == seconds

\* max(1.0, seconds)
ClampSeconds(seconds) == IF seconds > 1 THEN seconds ELSE 1

\* set_person_absent_threshold(seconds), from the settings dialog or a script
SetPersonAbsentThreshold(seconds) ==
  /\ person_absent_threshold' = ClampSeconds(seconds)
  /\ set_args' = [set_args EXCEPT ![1] = seconds]
  /\ UNCHANGED <<mgrVars, windows_locked, thrVars, camVars, g_pc, ext_polls>>
  /\ UNCHANGED <<lock_timeout, cancelled, t_shown, locked_now, attempt, c_pre, c_woke>>  \* lockExt
  /\ UNCHANGED nonLockVars

\* set_lock_timeout(seconds)
SetLockTimeout(seconds) ==
  /\ lock_timeout' = ClampSeconds(seconds)
  /\ set_args' = [set_args EXCEPT ![2] = seconds]
  /\ UNCHANGED <<mgrVars, windows_locked, thrVars, camVars, g_pc, ext_polls>>
  /\ UNCHANGED <<person_absent_threshold, cancelled, t_shown, locked_now, attempt, c_pre, c_woke>>  \* lockExt
  /\ UNCHANGED nonLockVars

\* get_status(), without last_detected
get_status ==
  [enabled |-> is_enabled, person_present |-> person_present,
   timer_active |-> lock_timer_active, notification_shown |-> notification_shown,
   pc_locked |-> pc_locked, absent_threshold |-> person_absent_threshold,
   lock_timeout |-> lock_timeout]

\* acknowledge_presence(), the window's "I'm Here" button and a public method the
\* test script calls directly: reset_timer(); close_notification()
AcknowledgePresence ==
  /\ g_pc = "idle"
  /\ reset_timer
  /\ Cancel({t \in Threads : InCountdown(t)}, "ack")
  /\ UNCHANGED <<is_enabled, person_present, pc_locked, last_person_detected_state,
                 timer_thread, windows_locked, thrVars, camVars, g_pc, ext_polls>>
  /\ UNCHANGED <<person_absent_threshold, lock_timeout, set_args, t_shown, locked_now, attempt, c_pre, c_woke>>  \* lockExt
  /\ UNCHANGED nonLockVars

\* disable_autolock(), the window's "Disable Auto-Lock" button:
\* set_enabled(False); close_notification()
DisableAutolock ==
  /\ g_pc = "idle"
  /\ notification_window
  /\ is_enabled' = FALSE
  /\ pc_locked' = FALSE
  /\ reset_timer
  /\ last_person_detected_state' = "unset"
  /\ Cancel({t \in Threads : Alive(t)}, "disable")
  /\ UNCHANGED <<person_present, timer_thread, windows_locked, thrVars, camVars, g_pc,
                 ext_polls>>
  /\ UNCHANGED <<person_absent_threshold, lock_timeout, set_args, t_shown, locked_now, attempt, c_pre, c_woke>>  \* lockExt
  /\ UNCHANGED nonLockVars

\* lock_pc_immediate(), the window's "Lock Now" button: lock_pc(), statement by
\* statement
GuiLockSet ==
  /\ g_pc = "idle"
  /\ notification_window
  /\ lock_pc_set
  /\ locked_now' = {t \in Threads : Alive(t)}
  /\ g_pc' = "lk_reset"
  /\ UNCHANGED <<thrVars, camVars, ext_polls>>
  /\ UNCHANGED <<person_absent_threshold, lock_timeout, set_args, cancelled, t_shown, attempt, c_pre, c_woke>>  \* lockExt
  /\ UNCHANGED nonLockVars

GuiLockReset ==
  /\ g_pc = "lk_reset"
  /\ lock_pc_reset
  /\ g_pc' = "lk_call"
  /\ UNCHANGED <<thrVars, camVars, ext_polls>>
  /\ UNCHANGED <<person_absent_threshold, lock_timeout, set_args, cancelled, t_shown, locked_now, attempt, c_pre, c_woke>>  \* lockExt
  /\ UNCHANGED nonLockVars

GuiLockCall ==
  /\ g_pc = "lk_call"
  /\ \E primary \in PrimaryOutcomes, fallback \in FallbackOutcomes :
       /\ lock_pc_call(lock_pc_attempt(primary, fallback).locked)
       /\ Attempted(primary, fallback)
  /\ g_pc' = "lk_done"
  /\ UNCHANGED <<thrVars, camVars, ext_polls>>
  /\ UNCHANGED <<person_absent_threshold, lock_timeout, set_args, cancelled, t_shown, locked_now, c_pre, c_woke>>  \* lockExt
  /\ UNCHANGED nonLockVars

\* lock_pc() returns into lock_pc_immediate()
GuiLockReturn ==
  /\ g_pc = "lk_done"
  /\ attempt' = NoAttempt
  /\ g_pc' = "idle"
  /\ UNCHANGED <<mgrVars, windows_locked, thrVars, camVars, ext_polls>>
  /\ UNCHANGED <<person_absent_threshold, lock_timeout, set_args, cancelled, t_shown, locked_now, c_pre, c_woke>>  \* lockExt
  /\ UNCHANGED nonLockVars

\* ------------------------------------------------------------------------
\* The workstation: locked and unlocked by the user, outside this program
\* ------------------------------------------------------------------------

\* an absence-timer execution is in its absence wait or in its countdown
TimerActive ==
  /\ lock_timer_active
  /\ \E t \in Threads :
       t_pc[t] \in {"p1_loop", "p1_poll", "p1_reconcile", "p1_test", "p2_loop", "p2_sleep"}

ExternalLock ==
  /\ ~windows_locked
  /\ windows_locked' = TRUE
  /\ ext_polls' = IF TimerActive THEN 0 ELSE -1
  /\ UNCHANGED <<mgrVars, thrVars, camVars, g_pc>>
  /\ UNCHANGED <<person_absent_threshold, lock_timeout, set_args, cancelled, t_shown, locked_now, attempt, c_pre, c_woke>>  \* lockExt
  /\ UNCHANGED nonLockVars

ExternalUnlock ==
  /\ windows_locked
  /\ windows_locked' = FALSE
  /\ ext_polls' = -1
  /\ UNCHANGED <<mgrVars, thrVars, camVars, g_pc>>
  /\ UNCHANGED <<person_absent_threshold, lock_timeout, set_args, cancelled, t_shown, locked_now, attempt, c_pre, c_woke>>  \* lockExt
  /\ UNCHANGED nonLockVars

\* ------------------------------------------------------------------------
\* Specifications of the lock manager
\* ------------------------------------------------------------------------

LockNext ==
  \/ \E d \in BOOLEAN : CamBegin(d)
  \/ CamStep
  \/ \E t \in Threads : TimerStep(t)
  \/ \E t \in Threads : TimerShowFails(t)
  \/ \E b \in BOOLEAN : SetEnabled(b)
  \/ AcknowledgePresence
  \/ DisableAutolock
  \/ GuiLockSet \/ GuiLockReset \/ GuiLockCall \/ GuiLockReturn
  \/ ExternalLock
  \/ ExternalUnlock

LockSpec == Init /\ [][LockNext]_vars

\* the same manager when a handler of the camera or GUI thread takes less than one
\* poll interval: no sleep of a timer thread ends while a handler is in progress
HandlersIdle == c_pc = "idle" /\ g_pc = "idle"

QuickTimerTest(t) == (person_present \/ pc_locked \/ HandlersIdle) /\ TimerTest(t)

QuickTimerSleep2(t) == HandlersIdle /\ TimerSleep2(t)

LockQuickNext ==
  \/ \E d \in BOOLEAN : CamBegin(d)
  \/ CamStep
  \/ \E t \in Threads : TimerRun(t)
  \/ \E t \in Threads : QuickTimerTest(t)
  \/ \E t \in Threads : QuickTimerSleep2(t)
  \/ \E t \in Threads : TimerShowFails(t)
  \/ \E b \in BOOLEAN : SetEnabled(b)
  \/ AcknowledgePresence
  \/ DisableAutolock
  \/ GuiLockSet \/ GuiLockReset \/ GuiLockCall \/ GuiLockReturn
  \/ ExternalLock
  \/ ExternalUnlock

LockQuickSpec == Init /\ [][LockQuickNext]_vars

\* the same manager when nobody acknowledges, disables or locks the workstation
\* from outside, and the notification window can be built
LockLiveNext ==
  \/ \E d \in BOOLEAN : CamBegin(d)
  \/ CamStep
  \/ \E t \in Threads : TimerStep(t)
  \/ SetEnabled(TRUE)
  \/ ExternalUnlock

\* the manager of LockLiveNext while the two durations are being set
LockSettingsNext ==
  \/ \E d \in BOOLEAN : CamBegin(d)
  \/ CamStep
  \/ \E t \in Threads : TimerStep(t)
  \/ SetEnabled(TRUE)
  \/ \E seconds \in Settings : SetPersonAbsentThreshold(seconds)
  \/ \E seconds \in Settings : SetLockTimeout(seconds)

LockSettingsSpec == Init /\ [][LockSettingsNext]_vars

\* every interleaving of LockSpec in which a started timer thread keeps running
LockFairSpec == LockSpec /\ \A t \in Threads : WF_vars(TimerStep(t))

\* the camera thread finishes the call it is in; a started timer thread keeps running
LockLiveSpec ==
  /\ Init
  /\ [][LockLiveNext]_vars
  /\ WF_vars(CamStep)
  /\ \A t \in Threads : WF_vars(TimerStep(t))

\* ------------------------------------------------------------------------
\* Claims about the lock manager
\* ------------------------------------------------------------------------

InLockPc(t) == t_pc[t] \in {"lk_set", "lk_reset", "lk_call", "lk_done"}

\* C1: the timer thread enters lock_pc() only while person_present is false
\* (presence regained before the countdown expired keeps the actuator from being
\* invoked; the presence flag is re-checked immediately before the lock command).
C1_LockOnlyWhileAbsent ==
  [][\A t \in Threads :
       (t_pc[t] = "p2_after" /\ t_pc'[t] = "lk_set") => ~person_present]_vars

\* C3: once the workstation was locked from outside while a timer execution was
\* active and no presence update arrived, the timer is cancelled within one poll
\* iteration: by the third loop test of the timer thread after the lock (at least
\* one whole loop body lies between the first and the third) the timer is
\* inactive, no notification is on screen and the thread is not in lock_pc().
C3_ExternalLockCancels ==
  ext_polls = 3 =>
    /\ ~lock_timer_active
    /\ ~notification_shown
    /\ \A t \in Threads : ~InLockPc(t)

\* C4: at most one timer thread is alive, and start_absence_timer() called while
\* the timer thread is alive creates no thread and changes no field.
C4_OneTimerThread ==
  /\ [](Cardinality(AliveThreads) <= 1)
  /\ [][(c_pc = "u_start" /\ c_pc' = "idle" /\ timer_thread_is_alive)
          => UNCHANGED <<mgrVars, thrVars>>]_vars

C4_Witness == c_pc = "u_start" /\ timer_thread_is_alive /\ timer_thread = 1

\* C5: pc_locked implies that no timer is active and no notification is shown.
\* States between the two statements of lock_pc() (pc_locked = True, then
\* reset_timer()) are left out, so that a violation is a state the manager rests in.
C5_LockedMeansNoTimer ==
  (pc_locked /\ g_pc # "lk_reset" /\ \A t \in Threads : t_pc[t] # "lk_reset")
    => (~lock_timer_active /\ ~notification_shown)

\* C10: at an enabled manager with the person present, no timer thread running
\* and the workstation unlocked, a reading "absent" after which no reading
\* "present" is delivered leads to the acknowledgment request, and the request
\* leads to the lock actuator's call.
AbsenceBegins ==
  /\ c_pc = "u_poll" /\ ~c_arg
  /\ is_enabled /\ person_present /\ ~pc_locked /\ ~windows_locked
  /\ ~lock_timer_active /\ ~notification_shown
  /\ AliveThreads = {}

NoPresentReading == c_pc # "idle" => ~c_arg

ActuatorInvoked == \E t \in Threads : t_pc[t] = "lk_done"

MaxTime == 37
\* the readings of the clock at which the agent is called: around the first warning
\* threshold, around min_state_duration, around the reset after good posture
ClockReadings == {0, 2, 14, 15, 16, 25, 26, MaxTime}
\* the sessions start_session() opens
MaxSessions == 2

\* self.warning_thresholds
warning_thresholds == <<15, 45, 120>>
\* min_state_duration in process_posture_update
min_state_duration == 2
\* seconds of good posture after which the warning level is reset
good_reset_duration == 10

Max(a, b) == IF a >= b THEN a ELSE b

\* the fields of the agent as one record, so that the handlers compose
AgentState ==
  [is_active |-> is_active, current_state |-> current_state,
   last_state_change |-> last_state_change,
   bad_posture_accumulator |-> bad_posture_accumulator,
   last_warning_level |-> last_warning_level,
   current_session |-> current_session, work_sessions |-> work_sessions,
   ret |-> -1, run_warnings |-> run_warnings, run_late_updates |-> run_late_updates,
   event |-> NoEvent]

SetAgent(s) ==
  /\ is_active' = s.is_active
  /\ current_state' = s.current_state
  /\ last_state_change' = s.last_state_change
  /\ bad_posture_accumulator' = s.bad_posture_accumulator
  /\ last_warning_level' = s.last_warning_level
  /\ current_session' = s.current_session
  /\ work_sessions' = s.work_sessions
  /\ run_warnings' = s.run_warnings
  /\ run_late_updates' = s.run_late_updates

\* end_session(): nothing without a session; else the row is inserted, the session
\* dropped and is_active cleared
end_session(s) ==
  IF ~s.current_session.open
    THEN s
    ELSE [s EXCEPT
           !.work_sessions = Append(@, [start_time |-> s.current_session.start_time,
                                        end_time |-> now,
                                        total_bad_posture_duration |-> s.bad_posture_accumulator,
                                        total_warnings |-> s.current_session.total_warnings]),
           !.current_session = NoSession,
           !.is_active = FALSE]

\* a variant of start_session() below that replaces an open session without
\* ending it
start_session_NoClose(s) ==
  [s EXCEPT
     !.current_session = [open |-> TRUE, start_time |-> now, total_warnings |-> 0],
     !.bad_posture_accumulator = 0,
     !.last_warning_level = -1,
     !.is_active = TRUE,
     !.run_warnings = 0,
     !.run_late_updates = 0]

\* start_session(): an open session is ended first; the accumulator and the warning
\* level are reset, current_state and last_state_change are not
start_session(s) ==
  [end_session(s) EXCEPT
     !.current_session = [open |-> TRUE, start_time |-> now, total_warnings |-> 0],
     !.bad_posture_accumulator = 0,
     !.last_warning_level = -1,
     !.is_active = TRUE,
     !.run_warnings = 0,
     !.run_late_updates = 0]

\* a variant of the state change below that asks for more than min_state_duration
state_change_StrictDebounce(s, is_bad_posture) ==
  LET new_state == IF is_bad_posture THEN "bad" ELSE "good"
      state_duration == now - s.last_state_change
  IN IF new_state # s.current_state /\ state_duration > min_state_duration
       THEN [s EXCEPT
              !.bad_posture_accumulator =
                 IF s.current_state = "bad" THEN @ + state_duration ELSE @,
              !.event = [timestamp |-> s.last_state_change, state |-> s.current_state,
                         duration |-> state_duration],
              !.current_state = new_state,
              !.last_state_change = now,
              !.run_warnings = 0,
              !.run_late_updates = 0]
       ELSE IF new_state # s.current_state
         THEN [s EXCEPT !.current_state = new_state,
                        !.last_state_change = now,
                        !.run_warnings = 0,
                        !.run_late_updates = 0]
         ELSE s

\* a variant of the state change below without the elif branch: a state that lasted
\* less than min_state_duration is kept
state_change_DebouncedOnly(s, is_bad_posture) ==
  LET new_state == IF is_bad_posture THEN "bad" ELSE "good"
      state_duration == now - s.last_state_change
  IN IF new_state # s.current_state /\ state_duration >= min_state_duration
       THEN [s EXCEPT
              !.bad_posture_accumulator =
                 IF s.current_state = "bad" THEN @ + state_duration ELSE @,
              !.event = [timestamp |-> s.last_state_change, state |-> s.current_state,
                         duration |-> state_duration],
              !.current_state = new_state,
              !.last_state_change = now,
              !.run_warnings = 0,
              !.run_late_updates = 0]
       ELSE s

\* process_posture_update: the state change. A state left after at least
\* min_state_duration is recorded as an event, and a bad one is added to the
\* accumulator; a shorter one is replaced without record.
state_change(s, is_bad_posture) ==
  LET new_state == IF is_bad_posture THEN "bad" ELSE "good"
      state_duration == now - s.last_state_change
  IN IF new_state # s.current_state /\ state_duration >= min_state_duration
       THEN [s EXCEPT
              !.bad_posture_accumulator =
                 IF s.current_state = "bad" THEN @ + state_duration ELSE @,
              !.event = [timestamp |-> s.last_state_change, state |-> s.current_state,
                         duration |-> state_duration],
              !.current_state = new_state,
              !.last_state_change = now,
              !.run_warnings = 0,
              !.run_late_updates = 0]
       ELSE IF new_state # s.current_state
         THEN [s EXCEPT !.current_state = new_state,
                        !.last_state_change = now,
                        !.run_warnings = 0,
                        !.run_late_updates = 0]
         ELSE s

current_bad_duration(s) == s.bad_posture_accumulator + (now - s.last_state_change)

\* a variant of the test below that ignores last_warning_level
WarningDue_NoLevelCheck(s, i) == current_bad_duration(s) >= warning_thresholds[i + 1]

\* a variant of the test below that ignores the threshold
WarningDue_NoThreshold(s, i) == i > s.last_warning_level

\* the test of the warning loop for index i (counted from 0)
WarningDue(s, i) ==
  current_bad_duration(s) >= warning_thresholds[i + 1] /\ i > s.last_warning_level

\* a variant of the loop below that runs to its end and keeps the last index due
WarningIndex_Highest(s) ==
  LET due == {i \in 0..(Len(warning_thresholds) - 1) : WarningDue(s, i)}
  IN IF due = {} THEN -1 ELSE CHOOSE i \in due : \A j \in due : i >= j

\* the index at which the warning loop breaks, -1 when it runs to its end
WarningIndex(s) ==
  LET due == {i \in 0..(Len(warning_thresholds) - 1) : WarningDue(s, i)}
  IN IF due = {} THEN -1 ELSE CHOOSE i \in due : \A j \in due : i <= j

\* a variant of the test below that does not ask for a warning level
GoodReset_NoLevelCheck(s) == now - s.last_state_change > good_reset_duration

\* a variant of the test below that resets at 10 s sharp
GoodReset_Inclusive(s) ==
  s.last_warning_level >= 0 /\ now - s.last_state_change >= good_reset_duration

\* whether the good branch resets the level and reduces the accumulator
GoodReset(s) ==
  s.last_warning_level >= 0 /\ now - s.last_state_change > good_reset_duration

\* process_posture_update: warnings in bad posture, the reset in good posture
check_warnings(s) ==
  IF s.current_state = "bad"
    THEN LET i == WarningIndex(s)
             late == now - s.last_state_change >= warning_thresholds[1]
             s1 == [s EXCEPT !.run_late_updates = IF late /\ @ < 2 THEN @ + 1 ELSE @]
         IN IF i >= 0
              THEN [s1 EXCEPT
                     !.last_warning_level = i,
                     !.current_session.total_warnings =
                        IF s.current_session.open THEN @ + 1 ELSE @,
                     !.run_warnings = @ + 1,
                     !.ret = i]
              ELSE s1
    ELSE IF GoodReset(s)
      THEN [s EXCEPT
             !.last_warning_level = -1,
             !.bad_posture_accumulator = Max(0, @ - (now - s.last_state_change))]
      ELSE s

\* a variant of process_posture_update below that ignores should_be_active()
\* while a session is open
process_posture_update_NoGate(s, active, is_bad_posture) ==
  IF ~active /\ ~s.is_active
    THEN s
    ELSE check_warnings(state_change(IF ~s.is_active THEN start_session(s) ELSE s,
                                     is_bad_posture))

\* process_posture_update(metrics, violations); should_be_active() returned active
process_posture_update(s, active, is_bad_posture) ==
  IF ~active
    THEN IF s.is_active THEN end_session(s) ELSE s
    ELSE check_warnings(state_change(IF ~s.is_active THEN start_session(s) ELSE s,
                                     is_bad_posture))

SessionsLeft == Len(work_sessions) + (IF current_session.open THEN 1 ELSE 0) < MaxSessions

\* the clock advances to its next reading
Tick ==
  /\ \E t \in ClockReadings : t > now
  /\ now' = CHOOSE t \in ClockReadings : t > now /\ \A u \in ClockReadings : u > now => t <= u
  /\ ret' = -2
  /\ verdict' = "none"
  /\ event' = NoEvent
  /\ UNCHANGED <<is_active, current_state, last_state_change, bad_posture_accumulator,
                 last_warning_level, current_session, work_sessions, run_warnings,
                 run_late_updates>>
  /\ UNCHANGED nonAgentVars

\* the camera thread's posture callback
ProcessPostureUpdate(active, is_bad_posture) ==
  /\ (active /\ ~is_active) => SessionsLeft
  /\ LET s == process_posture_update(AgentState, active, is_bad_posture)
     IN /\ SetAgent(s)
        /\ ret' = s.ret
        /\ event' = s.event
  /\ verdict' = IF ~active THEN "none" ELSE IF is_bad_posture THEN "bad" ELSE "good"
  /\ UNCHANGED now
  /\ UNCHANGED nonAgentVars

\* start_session(), called directly
StartSession ==
  /\ SessionsLeft \/ (current_session.open /\ Len(work_sessions) + 1 < MaxSessions)
  /\ SetAgent(start_session(AgentState))
  /\ ret' = -2
  /\ verdict' = "none"
  /\ event' = NoEvent
  /\ UNCHANGED now
  /\ UNCHANGED nonAgentVars

\* end_session(), called by the GUI when monitoring stops
EndSession ==
  /\ SetAgent(end_session(AgentState))
  /\ ret' = -2
  /\ verdict' = "none"
  /\ event' = NoEvent
  /\ UNCHANGED now
  /\ UNCHANGED nonAgentVars

AgentNext ==
  \/ Tick
  \/ \E active \in BOOLEAN, bad \in BOOLEAN : ProcessPostureUpdate(active, bad)
  \/ StartSession
  \/ EndSession

AgentSpec == Init /\ [][AgentNext]_vars

\* the last second of a long sitting
MaxLongTime == 149
\* the readings of the clock over a long sitting: a bad run can reach the first
\* threshold at 15 or 17, pass all three thresholds between 17 and 137, and good
\* posture from 137 has lasted more than 10 s at the last reading
LongReadings == {0, 2, 15, 17, 137, MaxLongTime}

\* the clock advances to its next reading of the long sitting
LongTick ==
  /\ \E t \in LongReadings : t > now
  /\ now' = CHOOSE t \in LongReadings : t > now /\ \A u \in LongReadings : u > now => t <= u
  /\ ret' = -2
  /\ verdict' = "none"
  /\ event' = NoEvent
  /\ UNCHANGED <<is_active, current_state, last_state_change, bad_posture_accumulator,
                 last_warning_level, current_session, work_sessions, run_warnings,
                 run_late_updates>>
  /\ UNCHANGED nonAgentVars

AgentLongNext ==
  \/ LongTick
  \/ \E active \in BOOLEAN, bad \in BOOLEAN : ProcessPostureUpdate(active, bad)
  \/ StartSession
  \/ EndSession

\* the agent over a sitting long enough for every warning level
AgentLongSpec == Init /\ [][AgentLongNext]_vars

\* ------------------------------------------------------------------------
\* Claims about the agent
\* ------------------------------------------------------------------------

\* C2: every closed session has end_time >= start_time and a persisted
\* total_bad_posture_duration of at most end_time - start_time, and the
\* accumulator of an open session is at most the time since its start_time.
C2_BadDurationWithinSession ==
  /\ \A i \in 1..Len(work_sessions) :
       /\ work_sessions[i].end_time >= work_sessions[i].start_time
       /\ work_sessions[i].total_bad_posture_duration
            <= work_sessions[i].end_time - work_sessions[i].start_time
  /\ current_session.open => bad_posture_accumulator <= now - current_session.start_time

\* C7: in a session whose accumulator is 0, over a bad run of at most 16 s an
\* update returns a warning exactly when it is the first update of the run with a
\* bad duration of at least 15 s; the warning has index 0, and it is the only one
\* of the run.
C7_OneWarningAtFifteen ==
  (/\ ret # -2 /\ is_active /\ current_state = "bad"
   /\ bad_posture_accumulator = 0
   /\ now - last_state_change <= 16)
  => /\ ret \in {-1, 0}
     /\ (ret = 0) <=> (run_late_updates = 1)
     /\ run_warnings = (IF now - last_state_change >= warning_thresholds[1] THEN 1 ELSE 0)
     /\ run_warnings = 1 => last_warning_level = 0

\* the update at 15 s returned the warning, the update at 16 s returned None
C7_Witness ==
  /\ ret = -1 /\ is_active /\ current_state = "bad"
  /\ bad_posture_accumulator = 0
  /\ now - last_state_change = 16
  /\ current_session.start_time <= last_state_change
  /\ run_late_updates = 2
  /\ run_warnings = 1
  /\ last_warning_level = 0

\* an update that finds and leaves the posture good inside a session
GoodUpdate ==
  /\ ret' # -2
  /\ is_active /\ is_active'
  /\ current_state = "good" /\ current_state' = "good"

\* C8: after a warning (last_warning_level >= 0), the first update at which good
\* posture has lasted more than 10 s sets last_warning_level to -1 and the
\* accumulator to max(0, accumulator - good duration); updates before it change
\* neither.
C8_GoodPostureResets ==
  [][/\ (GoodUpdate /\ last_warning_level >= 0 /\ now - last_state_change > 10)
          => /\ last_warning_level' = -1
             /\ bad_posture_accumulator' =
                  Max(0, bad_posture_accumulator - (now - last_state_change))
     /\ (GoodUpdate /\ now - last_state_change <= 10)
          => UNCHANGED <<last_warning_level, bad_posture_accumulator>>]_vars

\* the relapse: the second warning of one session is again the level-0 warning
C8_Witness ==
  /\ ret = 0
  /\ last_warning_level = 0
  /\ current_session.open /\ current_session.total_warnings = 2
  /\ current_state = "bad"
  /\ bad_posture_accumulator > 0

\* ------------------------------------------------------------------------
\* PostureAnalyzer: the four metrics
\* ------------------------------------------------------------------------

\* tan(k degrees) * 10^6 for k = 1..89
TanE6 ==
  <<17455, 34921, 52408, 69927, 87489, 105104, 122785, 140541, 158384,
    176327, 194380, 212557, 230868, 249328, 267949, 286745, 305731, 324920,
    344328, 363970, 383864, 404026, 424475, 445229, 466308, 487733, 509525,
    531709, 554309, 577350, 600861, 624869, 649408, 674509, 700208, 726543,
    753554, 781286, 809784, 839100, 869287, 900404, 932515, 965689,
    1000000, 1035530, 1072369, 1110613, 1150368, 1191754, 1234897, 1279942,
    1327045, 1376382, 1428148, 1482561, 1539865, 1600335, 1664279, 1732051,
    1804048, 1880726, 1962611, 2050304, 2144507, 2246037, 2355852, 2475087,
    2605089, 2747477, 2904211, 3077684, 3270853, 3487414, 3732051, 4010781,
    4331476, 4704630, 5144554, 5671282, 6313752, 7115370, 8144346, 9514364,
    11430052, 14300666, 19081137, 28636253, 57289962>>


Abs(x) == IF x < 0 THEN -x ELSE x

\* np.degrees(arctan(a / b)) for a >= 0 and b > 0, rounded up to whole degrees
CeilAtanDeg(a, b) ==
  IF a = 0 THEN 0
  ELSE CHOOSE k \in 1..90 :
         /\ k = 90 \/ a * 1000000 <= b * TanE6[k]
         /\ \A j \in 1..(k - 1) : a * 1000000 > b * TanE6[j]

\* the same rounded down
FloorAtanDeg(a, b) ==
  CHOOSE k \in 0..89 :
    /\ k = 0 \/ b * TanE6[k] <= a * 1000000
    /\ \A j \in (k + 1)..89 : b * TanE6[j] > a * 1000000

\* np.degrees(np.arctan2(a, b)) for a >= 0 and (a, b) # (0, 0), rounded up to whole
\* degrees: an angle is 0 exactly when its rounding is, and exceeds a whole number
\* of degrees exactly when its rounding does
CeilAtan2Deg(a, b) ==
  IF b > 0 THEN CeilAtanDeg(a, b)
  ELSE IF b = 0 THEN 90
  ELSE 180 - FloorAtanDeg(a, -b)

\* the angle between v and vertical_vector = [0, -1]:
\* degrees(arccos(clip(dot(v, vertical) / norms)))
VerticalAngle(v) == CeilAtan2Deg(Abs(v[1]), -v[2])

\* what the body of a calculate_* function comes to: a value, or an exception
Value(x) == [raised |-> "none", value |-> x]
Raise(e) == [raised |-> e, value |-> 0]

\* except (IndexError, ValueError): return 0; any other exception leaves the function
CaughtErrors == {"IndexError", "ValueError"}
Except(r) == IF r.raised \in CaughtErrors THEN Value(0) ELSE r

\* keypoints[i][:2] for every i of idx: None is not subscriptable, an index past
\* the array's end is an IndexError, a short row gives a short slice
Subscripts(kp, idx) ==
  IF kp.absent THEN "TypeError"
  ELSE IF \E i \in idx : i >= kp.rows THEN "IndexError"
  ELSE "none"

\* twice (a + b) / 2 - (c + d) / 2, so that the centers stay whole numbers
CenterDiff2(a, b, c, d) == <<(a[1] + b[1]) - (c[1] + d[1]), (a[2] + b[2]) - (c[2] + d[2])>>

\* the angle to the vertical of the vector from the center of c, d to the center of
\* a, b: np.dot of a slice shorter than 2 with [0, -1] is a ValueError; norms == 0
\* returns 0
CenterAngle(kp, a, b, c, d) ==
  LET e == Subscripts(kp, {a, b, c, d})
      v == CenterDiff2(kp.at[a], kp.at[b], kp.at[c], kp.at[d])
  IN IF e # "none" THEN Raise(e)
     ELSE IF kp.cols < 2 THEN Raise("ValueError")
     ELSE IF v = <<0, 0>> THEN Value(0)
     ELSE Value(VerticalAngle(v))

calculate_neck_tilt_angle(kp) ==
  Except(CenterAngle(kp, LEFT_EAR, RIGHT_EAR, LEFT_SHOULDER, RIGHT_SHOULDER))

\* head_vector = nose - ear_center; head_vector[1] of a slice shorter than 2 is an
\* IndexError; the angle from the horizontal when the nose is below the ears
calculate_head_pitch(kp) ==
  LET e == Subscripts(kp, {NOSE, LEFT_EAR, RIGHT_EAR})
      v == CenterDiff2(kp.at[NOSE], kp.at[NOSE], kp.at[LEFT_EAR], kp.at[RIGHT_EAR])
  IN Except(IF e # "none" THEN Raise(e)
            ELSE IF kp.cols < 2 THEN Raise("IndexError")
            ELSE IF v[2] > 0 THEN Value(CeilAtan2Deg(Abs(v[2]), Abs(v[1])))
            ELSE Value(0))

calculate_torso_lean(kp) ==
  Except(CenterAngle(kp, LEFT_SHOULDER, RIGHT_SHOULDER, LEFT_HIP, RIGHT_HIP))

\* abs(left_shoulder[1] - right_shoulder[1])
calculate_shoulder_asymmetry(kp) ==
  LET e == Subscripts(kp, {LEFT_SHOULDER, RIGHT_SHOULDER})
  IN Except(IF e # "none" THEN Raise(e)
            ELSE IF kp.cols < 2 THEN Raise("IndexError")
            ELSE Value(Abs(kp.at[LEFT_SHOULDER][2] - kp.at[RIGHT_SHOULDER][2])))

\* the four calls of analyze_keypoints, in the order of the code
MetricCalls(kp) ==
  <<calculate_neck_tilt_angle(kp), calculate_head_pitch(kp),
    calculate_torso_lean(kp), calculate_shoulder_asymmetry(kp)>>

\* the first exception a call lets out ends analyze_keypoints
RaisedBy(calls) ==
  IF \A i \in 1..Len(calls) : calls[i].raised = "none" THEN "none"
  ELSE calls[CHOOSE i \in 1..Len(calls) :
               calls[i].raised # "none" /\ \A j \in 1..(i - 1) : calls[j].raised = "none"].raised

\* deque(maxlen = window_size).append
DequeAppend(q, x, maxlen) ==
  IF maxlen = 0 THEN q
  ELSE IF Len(q) >= maxlen THEN Append(Tail(q), x) ELSE Append(q, x)

\* ------------------------------------------------------------------------
\* PostureAnalyzer: the window and the alert
\* ------------------------------------------------------------------------

\* PostureAnalyzer(window_size, fps)
window_size == 2
fps == 1

\* PostureThresholds
neck_tilt_threshold == 20
head_pitch_threshold == 30
torso_lean_threshold == 15
shoulder_asymmetry_threshold == 8
bad_posture_duration_threshold == 3
\* self.cooldown_duration
cooldown_duration == 300
\* the share of recent samples, in percent, from which a metric alerts
alert_percentage == 60

\* analyze_keypoints(keypoints): the four metrics, the PostureMetrics stamped with
\* time.time(), the append to the window; an exception of a metric ends the call
AnalyzeKeypoints(kp) ==
  LET calls == MetricCalls(kp)
      e == RaisedBy(calls)
      m == [neck_tilt_angle |-> calls[1].value, head_pitch |-> calls[2].value,
            torso_lean |-> calls[3].value, shoulder_asymmetry |-> calls[4].value,
            timestamp |-> now]
  IN /\ keypoints' = kp
     /\ analyzed' = TRUE
     /\ raised' = e
     /\ metrics' = IF e = "none" THEN m ELSE NoMetrics
     /\ metrics_window' = IF e = "none" THEN DequeAppend(metrics_window, m, window_size)
                          ELSE metrics_window
     /\ UNCHANGED <<last_notification_time, alert, alert_times, now>>
     /\ UNCHANGED nonAnalyzerVars

Metrics == {"neck_tilt", "head_pitch", "torso_lean", "shoulder_asymmetry"}

\* is_bad_posture(metrics): the violations dictionary
is_bad_posture(m) ==
  [k \in Metrics |->
     CASE k = "neck_tilt" -> m.neck_tilt_angle > neck_tilt_threshold
       [] k = "head_pitch" -> m.head_pitch > head_pitch_threshold
       [] k = "torso_lean" -> m.torso_lean > torso_lean_threshold
       [] k = "shoulder_asymmetry" -> m.shoulder_asymmetry > shoulder_asymmetry_threshold]

\* the samples of the window not older than age seconds
RecentMetrics(age) ==
  LET Recent(m) == m.timestamp >= now - age
  IN SelectSeq(metrics_window, Recent)

\* a variant of should_alert below that asks every metric to reach the percentage
should_alert_AllMetrics(recent) ==
  \A k \in Metrics :
    Cardinality({i \in 1..Len(recent) : is_bad_posture(recent[i])[k]}) * 100
      >= alert_percentage * Len(recent)

\* any(percentage >= 60 ...) over the recent samples
should_alert(recent) ==
  \E k \in Metrics :
    Cardinality({i \in 1..Len(recent) : is_bad_posture(recent[i])[k]}) * 100
      >= alert_percentage * Len(recent)

\* a variant of the test below that passes at cooldown_duration sharp
CooldownOver_Inclusive == now - last_notification_time >= cooldown_duration

\* (current_time - self.last_notification_time) > self.cooldown_duration
CooldownOver == now - last_notification_time > cooldown_duration

\* should_trigger_alert(): the first component of what it returns
AlertDecision ==
  LET recent == RecentMetrics(bad_posture_duration_threshold)
  IN /\ Len(metrics_window) >= fps * 2
     /\ recent # <<>>
     /\ should_alert(recent)
     /\ CooldownOver

ShouldTriggerAlert ==
  /\ alert' = IF AlertDecision THEN "true" ELSE "false"
  /\ last_notification_time' = IF AlertDecision THEN now ELSE last_notification_time
  /\ alert_times' = IF AlertDecision THEN Append(alert_times, now) ELSE alert_times
  /\ UNCHANGED <<keypoints, analyzed, metrics, raised, metrics_window, now>>
  /\ UNCHANGED nonAnalyzerVars

\* the readings of the clock at which the analyzer is called: around
\* bad_posture_duration_threshold and around cooldown_duration
AnalyzerReadings == {0, 1, 3, 4, 300, 301, 302}

AnalyzerTick ==
  /\ \E t \in AnalyzerReadings : t > now
  /\ now' = CHOOSE t \in AnalyzerReadings :
              t > now /\ \A u \in AnalyzerReadings : u > now => t <= u
  /\ UNCHANGED analyzerVars
  /\ UNCHANGED nonAnalyzerVars

\* a frame's 33 landmarks (x, y, visibility) as the camera hands them over
Pose(nose, ears, shoulders, hips) ==
  [absent |-> FALSE, rows |-> 33, cols |-> 3,
   at |-> [i \in Landmarks |->
             CASE i = NOSE -> nose
               [] i \in {LEFT_EAR, RIGHT_EAR} -> ears
               [] i \in {LEFT_SHOULDER, RIGHT_SHOULDER} -> shoulders
               [] OTHER -> hips]]

Upright == Pose(<<1, 0>>, <<1, 0>>, <<1, 1>>, <<1, 2>>)
Slouched == Pose(<<2, 1>>, <<2, 0>>, <<1, 1>>, <<1, 2>>)

\* the camera thread analyzes a frame in which a person's keypoints were found
AnalyzeFrame == \E kp \in {Upright, Slouched} : AnalyzeKeypoints(kp)

AnalyzerNext ==
  \/ AnalyzerTick
  \/ AnalyzeFrame
  \/ ShouldTriggerAlert

AnalyzerSpec == Init /\ [][AnalyzerNext]_vars

\* ------------------------------------------------------------------------
\* Claims about the analyzer
\* ------------------------------------------------------------------------

\* C6: any two calls of should_trigger_alert() that returned true are more than
\* cooldown_duration seconds apart.
C6_AlertsCooldownApart ==
  \A i \in 1..Len(alert_times) : \A j \in 1..Len(alert_times) :
    i < j => alert_times[j] - alert_times[i] > cooldown_duration

\* should_trigger_alert() has just returned true for the second time
C6_Witness == alert = "true" /\ Len(alert_times) = 2 /\ last_notification_time = now

\* ------------------------------------------------------------------------
\* The metrics of one keypoints value, for every shape of it
\* ------------------------------------------------------------------------

\* the lengths of the array: empty, and one short of and just past each landmark
\* pair the metrics read
RowCounts == {0, 8, 12, 24, 25}
\* the numbers in a row
ColCounts == {1, 2, 3}
\* where a landmark lies
Points == {<<1, 0>>, <<1, 1>>, <<2, 1>>}

KeypointInputs ==
  {NoKeypoints} \cup
  [absent : {FALSE}, rows : RowCounts, cols : ColCounts, at : [Landmarks -> Points]]

GeomInit ==
  /\ LockInit
  /\ AgentInit
  /\ StoreInit
  /\ CameraInit
  /\ keypoints \in KeypointInputs
  /\ analyzed = FALSE
  /\ metrics = NoMetrics
  /\ raised = "none"
  /\ metrics_window = <<>>
  /\ last_notification_time = -ConstructionTime
  /\ alert = "none"
  /\ alert_times = <<>>

\* analyze_keypoints on the keypoints value drawn
AnalyzeDrawn == ~analyzed /\ AnalyzeKeypoints(keypoints)

GeomNext == AnalyzeDrawn

GeomSpec == GeomInit /\ [][GeomNext]_vars

\* a metric is missing data when the array is absent, a row it reads is past the
\* array's end or has fewer than 2 numbers, or its vector has zero length
Reads(k) ==
  CASE k = "neck_tilt" -> {LEFT_EAR, RIGHT_EAR, LEFT_SHOULDER, RIGHT_SHOULDER}
    [] k = "head_pitch" -> {NOSE, LEFT_EAR, RIGHT_EAR}
    [] k = "torso_lean" -> {LEFT_SHOULDER, RIGHT_SHOULDER, LEFT_HIP, RIGHT_HIP}
    [] k = "shoulder_asymmetry" -> {LEFT_SHOULDER, RIGHT_SHOULDER}

VectorOf(kp, k) ==
  CASE k = "neck_tilt" ->
         CenterDiff2(kp.at[LEFT_EAR], kp.at[RIGHT_EAR],
                     kp.at[LEFT_SHOULDER], kp.at[RIGHT_SHOULDER])
    [] k = "head_pitch" ->
         CenterDiff2(kp.at[NOSE], kp.at[NOSE], kp.at[LEFT_EAR], kp.at[RIGHT_EAR])
    [] k = "torso_lean" ->
         CenterDiff2(kp.at[LEFT_SHOULDER], kp.at[RIGHT_SHOULDER],
                     kp.at[LEFT_HIP], kp.at[RIGHT_HIP])
    [] k = "shoulder_asymmetry" -> <<1, 1>>

MissingData(kp, k) ==
  \/ kp.absent
  \/ \E i \in Reads(k) : i >= kp.rows
  \/ kp.cols < 2
  \/ VectorOf(kp, k) = <<0, 0>>

MetricOf(m, k) ==
  CASE k = "neck_tilt" -> m.neck_tilt_angle
    [] k = "head_pitch" -> m.head_pitch
    [] k = "torso_lean" -> m.torso_lean
    [] k = "shoulder_asymmetry" -> m.shoulder_asymmetry

\* C9: analyze_keypoints raises no error and returns the metrics, and every metric
\* that is missing data (array absent or too short, a row with fewer than 2
\* coordinates, a zero-length vector) is 0.
C9_MissingDataYieldsZero ==
  analyzed =>
    /\ raised = "none"
    /\ metrics # NoMetrics
    /\ \A k \in Metrics : MissingData(keypoints, k) => MetricOf(metrics, k) = 0

\* ------------------------------------------------------------------------
\* Claims on the lock manager: cancellation, settings, debounce, wake signal
\* ------------------------------------------------------------------------

C12_FailedLockNotBelieved ==
  [][/\ \A t \in Threads :
          t_pc[t] = "lk_call" /\ t_pc'[t] = "lk_done" /\ ~windows_locked' => ~pc_locked'
     /\ g_pc = "lk_call" /\ g_pc' = "lk_done" /\ ~windows_locked' => ~pc_locked']_vars

\* C13: when a call of update_person_presence ends, and after each poll of the
\* timer's absence loop, pc_locked equals what is_workstation_locked() returned
\* during that call
C13_BeliefIsLatestPoll ==
  [][/\ c_pc \notin {"idle", "u_poll"} /\ c_pc' = "idle" => pc_locked' = c_wl
     /\ \A t \in Threads :
          t_pc[t] = "p1_reconcile" /\ t_pc'[t] = "p1_test" => pc_locked' = t_wl[t]]_vars

\* C14: once set_person_absent_threshold(s) and set_lock_timeout(t) have been called,
\* get_status() reports absent_threshold = max(1, s) and lock_timeout = max(1, t), and
\* a setter changes no other field of the manager and no timer thread
C14_SettersClampAndFrame ==
  [][/\ set_args'[1] # -1 =>
          get_status'.absent_threshold = IF set_args'[1] > 1 THEN set_args'[1] ELSE 1
     /\ set_args'[2] # -1 =>
          get_status'.lock_timeout = IF set_args'[2] > 1 THEN set_args'[2] ELSE 1
     /\ set_args'[1] # set_args[1] =>
          UNCHANGED <<mgrVars, lock_timeout, windows_locked, thrVars, cancelled, t_shown>>
     /\ set_args'[2] # set_args[2] =>
          UNCHANGED <<mgrVars, person_absent_threshold, windows_locked, thrVars,
                      cancelled, t_shown>>]_vars

\* both setters were called, one below the floor, while a timer thread is running
C14_Witness ==
  /\ set_args = <<0, MaxSetting>>
  /\ get_status.absent_threshold = 1 /\ get_status.lock_timeout = MaxSetting
  /\ get_status.timer_active /\ \E t \in Threads : t_pc[t] = "p2_sleep"

\* C15: a call update_person_presence(False) that begins in the state PRESENT with a
\* reading that differs from the previous one, and during which the manager is
\* neither disabled nor locked, ends with lock_timer_active true and a timer thread
\* alive
C15_AbsenceStartsTimer ==
  [][(c_pc \in {"u_absent", "u_start", "u_spawn"} /\ c_pc' = "idle" /\ ~c_arg /\ c_pre
        /\ is_enabled' /\ ~pc_locked')
     => (lock_timer_active' /\ timer_thread_is_alive')]_vars

\* C16: once update_person_presence(True) has been processed while a timer execution
\* was in its absence wait, before person_absent_threshold elapsed, the timer is
\* cancelled and that execution never shows the notification: it stays in the
\* absence loop or on its way out, and notification_shown stays false
C16_PresenceBeforeThreshold ==
  \A t \in Threads : cancelled[t] = "presence" =>
    /\ ~lock_timer_active /\ ~notification_shown /\ ~t_shown[t]
    /\ t_pc[t] \in {"p1_loop", "p1_poll", "p1_reconcile", "p1_test", "chk_active", "finally"}

\* a timer execution cancelled by a present reading in its absence wait is ending,
\* and the person has left again in the meantime
C16_Witness ==
  \E t \in Threads : cancelled[t] = "presence" /\ t_pc[t] = "finally" /\ ~person_present

\* C17: a timer execution is inside lock_pc() only after it has shown the
\* notification itself and has counted lock_timeout down from that moment; an
\* execution whose notification could not be shown never enters lock_pc()
C17_LockAfterFullCountdown ==
  \A t \in Threads : InLockPc(t) => t_shown[t] /\ t_elapsed[t] >= lock_timeout

\* a timer execution locks after its notification and the whole countdown
C17_Witness ==
  \E t \in Threads : t_pc[t] = "lk_set" /\ t_shown[t] /\ t_elapsed[t] = lock_timeout

\* history: this step is a set_enabled(False) or a disable_autolock()
DisableStep == is_enabled /\ ~is_enabled'

\* history: this step starts a timer thread
ThreadStarts == \E t \in Threads : t_pc[t] = "dead" /\ t_pc'[t] # "dead"

\* C18: set_enabled(False) and disable_autolock() leave is_enabled, lock_timer_active
\* and notification_shown false; the two flags stay false while the manager is
\* disabled, no timer thread is started while it is disabled, and a timer execution
\* calls the lock actuator neither while the manager is disabled nor after a disable
\* that found it alive
C18_DisableCancelsAll ==
  [][/\ DisableStep => ~lock_timer_active' /\ ~notification_shown'
     /\ ~is_enabled' => ~lock_timer_active' /\ ~notification_shown'
     /\ ThreadStarts => is_enabled
     /\ \A t \in Threads :
          t_pc[t] = "lk_call" /\ t_pc'[t] = "lk_done"
            => is_enabled /\ cancelled[t] # "disable"]_vars

\* C19: a call of update_person_presence whose reading equals the previous one
\* returns at the debounce test having changed nothing: no field of the manager, no
\* timer thread, no wake signal. Before that test a call does the reconciliation
\* only: it leaves is_enabled, person_present, the last reading and the timer
\* threads alone, corrects pc_locked to the polled value, and clears the timer and
\* notification flags only when the poll newly finds the workstation locked
C19_DebounceOnlyReconciles ==
  [][/\ (c_pc = "u_debounce" /\ c_pc' # "u_debounce"
            /\ last_person_detected_state = StateOf(c_arg))
          => (c_pc' = "idle" /\ UNCHANGED <<mgrVars, windows_locked, thrVars, c_woke>>)
     /\ (c_pc \in {"idle", "u_poll"} /\ c_pc' # c_pc)
          => (UNCHANGED <<mgrVars, windows_locked, thrVars>> /\ ~c_woke')
     /\ (c_pc = "u_reconcile" /\ c_pc' # c_pc)
          => /\ UNCHANGED <<is_enabled, person_present, last_person_detected_state,
                            timer_thread, windows_locked, thrVars, c_woke>>
             /\ pc_locked' = c_wl
             /\ UNCHANGED <<lock_timer_active, notification_shown, notification_window>>
                  \/ (c_wl /\ ~pc_locked /\ lock_timer_active
                        /\ ~lock_timer_active' /\ ~notification_shown')]_vars

\* a repeated absent reading is at the debounce test after its poll found the
\* workstation locked and cancelled the running timer
C19_Witness ==
  /\ c_pc = "u_debounce" /\ ~c_arg /\ last_person_detected_state = "absent"
  /\ c_wl /\ pc_locked /\ ~lock_timer_active /\ timer_thread_is_alive /\ ~c_woke

\* C20: update_person_presence(True) made while person_present is false is not
\* debounced; it issues the wake signal once, sets person_present, clears pc_locked,
\* and returns with lock_timer_active false. The wake signal is issued by no other
\* step: not by an absent reading and not by a present reading while person_present
\* is already true
C20_WakeOnReturnOnly ==
  [][/\ (c_pc = "u_debounce" /\ c_pc' # c_pc /\ c_arg /\ ~person_present)
          => c_pc' = "u_present"
     /\ (c_pc = "u_present" /\ c_pc' # c_pc)
          => (c_woke' = ~person_present /\ person_present' /\ ~pc_locked')
     /\ (c_pc = "u_present_reset" /\ c_pc' # c_pc)
          => (c_pc' = "idle" /\ ~lock_timer_active' /\ UNCHANGED c_woke)
     /\ (c_woke' /\ ~c_woke)
          => (c_pc = "u_present" /\ c_arg /\ ~person_present /\ person_present')]_vars

\* the person is back in front of a locked workstation with the countdown running:
\* the wake signal is out, the belief is reset, the timer is about to be cancelled
C20_Witness ==
  /\ c_pc = "u_present_reset" /\ c_woke /\ person_present /\ ~pc_locked
  /\ lock_timer_active /\ notification_shown

\* ------------------------------------------------------------------------
\* Claims on the lock manager: acknowledgment paths, termination, re-enabling
\* ------------------------------------------------------------------------

\* C21: lock_pc_immediate() returns with pc_locked true and lock_timer_active and
\* notification_shown false, and a timer execution that was alive when it was
\* called does not call the lock actuator itself
C21_LockNowForcesLocked ==
  [][/\ (g_pc = "lk_call" /\ g_pc' = "lk_done")
          => (pc_locked' /\ ~lock_timer_active' /\ ~notification_shown')
     /\ \A t \in Threads :
          (t_pc[t] = "lk_call" /\ t_pc'[t] = "lk_done") => t \notin locked_now]_vars

\* C22: acknowledge_presence() during the countdown puts the manager back into
\* the state PRESENT, from which the next absence is timed again: person_present
\* true, no timer, no notification
C22_AcknowledgeResumesMonitoring ==
  [][(\E t \in Threads : cancelled[t] = "no" /\ cancelled'[t] = "ack")
       => (person_present' /\ ~lock_timer_active' /\ ~notification_shown')]_vars

C24_FallbackIffPrimaryFails ==
  attempt # NoAttempt =>
    /\ attempt.fallback_called <=> attempt.primary \in {"false", "raises"}
    /\ ~attempt.raised

\* LockWorkStation() raised in the timer thread, the fallback ran and did not lock
C24_Witness ==
  /\ \E t \in Threads : t_pc[t] = "lk_done"
  /\ attempt.primary = "raises" /\ attempt.fallback_called /\ ~windows_locked

\* C25: an absent reading that is not debounced (the first one after a disable and
\* re-enable is not), received while the manager is enabled and unlocked, nothing
\* is timing and no timer thread is left, goes on to start the absence timer
C25_ReenableRestoresMonitoring ==
  [][(c_pc = "u_absent" /\ c_pc' # "u_absent" /\ is_enabled /\ ~pc_locked
        /\ ~lock_timer_active /\ ~notification_shown /\ AliveThreads = {}
        /\ g_pc = "idle")
       => c_pc' = "u_start"]_vars

\* ------------------------------------------------------------------------
\* Claims on the agent: tracked state, events, escalation, decay
\* ------------------------------------------------------------------------

\* C26: current_state starts as GOOD and is always GOOD or BAD; after every
\* process_posture_update made while the agent should be active it is BAD when a
\* violation flag is set and GOOD otherwise, whether or not the state it replaces
\* had lasted min_state_duration
C26_StateFollowsVerdict ==
  /\ current_state = "good"
  /\ [](/\ current_state \in {"good", "bad"}
        /\ verdict # "none" => current_state = verdict)

\* a bad verdict replaced a good state that had lasted less than 2 s: no event
C26_Witness ==
  /\ verdict = "bad" /\ current_state = "bad" /\ is_active
  /\ event = NoEvent /\ last_state_change = now /\ now = 14

\* an update made while the agent should be active, and the accumulator it starts
\* from: the field, or 0 when the update opens the session
ActiveUpdate == ret' # -2 /\ verdict' # "none"

AccumulatorAtUpdate == IF is_active THEN bad_posture_accumulator ELSE 0

\* C27: an update appends a PostureEvent if and only if its verdict differs from
\* current_state and that state has lasted at least 2 s; the event describes the
\* state left, with its start as timestamp and its elapsed time as duration; the
\* accumulator grows by that time when the state left is BAD; a differing verdict
\* after less than 2 s appends nothing and leaves the accumulator as it is
C27_DebouncedTransitionEffects ==
  [][ActiveUpdate =>
       LET differs == verdict' # current_state
           elapsed == now - last_state_change
       IN /\ (event' # NoEvent) <=> (differs /\ elapsed >= 2)
          /\ (differs /\ elapsed >= 2) =>
               /\ event' = [timestamp |-> last_state_change, state |-> current_state,
                            duration |-> elapsed]
               /\ bad_posture_accumulator' =
                    AccumulatorAtUpdate + (IF current_state = "bad" THEN elapsed ELSE 0)
          /\ (differs /\ elapsed < 2) => bad_posture_accumulator' = AccumulatorAtUpdate
          /\ event'.state # "none" => event'.duration >= 2]_vars

\* a BAD state was left after exactly 2 s: the event carries its start and the 2 s,
\* and the accumulator holds them
C27_Witness ==
  /\ verdict = "good" /\ event.state = "bad" /\ event.duration = 2
  /\ event.timestamp = now - 2 /\ bad_posture_accumulator >= 2 /\ is_active

\* the warning level and the session's warning count an update starts from: the
\* fields, or -1 and 0 when the update opens the session
LevelAtUpdate == IF is_active THEN last_warning_level ELSE -1

WarningsAtUpdate == IF is_active THEN current_session.total_warnings ELSE 0

\* start_session() ran in the step
SessionOpened ==
  /\ current_session'.open
  /\ ~current_session.open \/ Len(work_sessions') > Len(work_sessions)

\* the bad duration the warning loop of an update compares, after its state change
BadDurationAfter == bad_posture_accumulator' + (now - last_state_change')

\* C28: an update returns at most one warning and only in state BAD; a warning at
\* index i is returned only if accumulator + time in the bad run has reached
\* thresholds[i] and i is greater than last_warning_level; it sets
\* last_warning_level to i and adds exactly one to the session's total_warnings;
\* an update in state BAD that returns none found no such index and changes
\* neither; last_warning_level decreases only by the reset of a new session or
\* by the reset to -1 after good posture
C28_EscalationMonotone ==
  [][/\ (ActiveUpdate /\ ret' >= 0) =>
          /\ ret' \in 0..(Len(warning_thresholds) - 1)
          /\ current_state' = "bad"
          /\ BadDurationAfter >= warning_thresholds[ret' + 1]
          /\ ret' > LevelAtUpdate
          /\ last_warning_level' = ret'
          /\ current_session'.total_warnings = WarningsAtUpdate + 1
     /\ (ActiveUpdate /\ ret' = -1) =>
          /\ current_session'.total_warnings = WarningsAtUpdate
          /\ current_state' = "bad" =>
               /\ last_warning_level' = LevelAtUpdate
               /\ \A i \in 0..(Len(warning_thresholds) - 1) :
                    i > LevelAtUpdate => BadDurationAfter < warning_thresholds[i + 1]
     /\ (last_warning_level' < last_warning_level) =>
          \/ SessionOpened /\ last_warning_level' = (IF ret' >= 0 THEN ret' ELSE -1)
          \/ /\ ActiveUpdate /\ current_state' = "good"
             /\ now - last_state_change' > good_reset_duration
             /\ last_warning_level' = -1]_vars

\* index 0 was returned a second time in one session, after more than 10 s of good
\* posture had reset the level
C28_Witness ==
  /\ ret = 0 /\ last_warning_level = 0 /\ current_state = "bad"
  /\ is_active /\ current_session.start_time = 0
  /\ current_session.total_warnings = 2
  /\ now = MaxLongTime

\* C29: every warning raises last_warning_level by exactly 1, also when the bad
\* duration at the first update that evaluates it has passed several thresholds:
\* the levels are then returned in the order 0, 1, 2 by successive updates; and
\* last_warning_level stays within -1 .. len(warning_thresholds) - 1
C29_LevelsNeverSkipped ==
  /\ [](last_warning_level \in -1..(Len(warning_thresholds) - 1))
  /\ [][(ActiveUpdate /\ ret' >= 0) =>
          /\ ret' = LevelAtUpdate + 1
          /\ last_warning_level' = LevelAtUpdate + 1]_vars

\* a bad run that began at 17 was first evaluated at 137, 120 s later: the third
\* update at 137 returned level 2, after levels 0 and 1
C29_Witness ==
  /\ ret = 2 /\ last_warning_level = 2 /\ run_warnings = 3
  /\ current_state = "bad" /\ last_state_change = 17 /\ now = 137
  /\ bad_posture_accumulator = 0 /\ current_session.total_warnings = 3

\* the decay step: an update in a session finds the posture good, a warning level
\* set and more than 10 s of good posture, resets the level and reduces the
\* accumulator by the good duration, not below 0
DecayStep ==
  /\ GoodUpdate /\ verdict' = "good"
  /\ last_warning_level >= 0 /\ last_warning_level' = -1
  /\ now - last_state_change > good_reset_duration
  /\ last_state_change' = last_state_change
  /\ bad_posture_accumulator' =
       Max(0, bad_posture_accumulator - (now - last_state_change))

\* C30 as stated: the accumulator is never negative and decreases only in the
\* decay step; while GOOD with last_warning_level = -1 an update leaves the
\* accumulator and the level unchanged
C30_DecreasesOnlyInDecay ==
  /\ [](bad_posture_accumulator >= 0)
  /\ [][/\ (bad_posture_accumulator' < bad_posture_accumulator) => DecayStep
        /\ (/\ ActiveUpdate /\ current_state = "good" /\ current_state' = "good"
            /\ last_warning_level = -1)
             => UNCHANGED <<bad_posture_accumulator, last_warning_level>>]_vars

\* C30, amended: the accumulator is never negative; it decreases only in the decay
\* step or when start_session() sets it to 0 (the update that opens the session
\* may then add the bad state it leaves); the level is reset to -1 by the decay
\* step and rises only in state BAD, so that one good run has at most one decay
\* step; inside a session, while GOOD with last_warning_level = -1, an update
\* leaves the accumulator and the level unchanged
C30_DecayOrNewSession ==
  /\ [](bad_posture_accumulator >= 0)
  /\ [][/\ (bad_posture_accumulator' < bad_posture_accumulator)
             => \/ DecayStep
                \/ /\ SessionOpened
                   /\ bad_posture_accumulator' =
                        (IF event'.state = "bad" THEN event'.duration ELSE 0)
        /\ (last_warning_level' > last_warning_level) => current_state' = "bad"
        /\ (GoodUpdate /\ last_warning_level = -1)
             => UNCHANGED <<bad_posture_accumulator, last_warning_level>>]_vars

\* 11 s of good posture after a warning took 11 s off an accumulator of 15 s
C30_Witness ==
  /\ verdict = "good" /\ current_state = "good" /\ is_active /\ ret = -1
  /\ last_warning_level = -1 /\ bad_posture_accumulator = 4
  /\ last_state_change = 15 /\ now = 26

\* ------------------------------------------------------------------------
\* PostureAgent under its callers' threads: process_posture_update on the worker
\* threads of the GUI, end_session, record_feedback and get_daily_summary on the
\* GUI thread.  One action is one statement; the posture part of
\* process_posture_update (lines 276-357) is one step that may append an event to
\* the open session, return a warning and change the accumulator.
\* ------------------------------------------------------------------------

agentFields == <<s_current_session, s_is_active, s_accumulator, s_warning_level,
                 s_objects>>
dbVars == <<db_lock, db_last, txn, interleaved>>

KGoto(t, pc) ==
  /\ k_pc' = [k_pc EXCEPT ![t] = pc]
  /\ UNCHANGED <<k_stack, k_result, k_op>>

\* a call of callee whose return continues at back
KCall(t, callee, back) ==
  /\ k_pc' = [k_pc EXCEPT ![t] = callee]
  /\ k_stack' = [k_stack EXCEPT ![t] = <<back>> \o @]
  /\ UNCHANGED <<k_result, k_op>>

\* return: to the caller, or out of the thread's call
KReturn(t) ==
  /\ IF k_stack[t] = <<>>
       THEN /\ k_pc' = [k_pc EXCEPT ![t] = "done"]
            /\ k_result' = [k_result EXCEPT ![t] = "returned"]
            /\ UNCHANGED k_stack
       ELSE /\ k_pc' = [k_pc EXCEPT ![t] = Head(k_stack[t])]
            /\ k_stack' = [k_stack EXCEPT ![t] = Tail(@)]
            /\ UNCHANGED k_result
  /\ UNCHANGED k_op

\* an exception no frame of the agent catches: it leaves the thread's call
KRaise(t, error) ==
  /\ k_pc' = [k_pc EXCEPT ![t] = "done"]
  /\ k_stack' = [k_stack EXCEPT ![t] = <<>>]
  /\ k_result' = [k_result EXCEPT ![t] = error]
  /\ UNCHANGED k_op

KBegin(t, op, entry) ==
  /\ k_pc[t] = "idle"
  /\ k_pc' = [k_pc EXCEPT ![t] = entry]
  /\ k_op' = [k_op EXCEPT ![t] = op]
  /\ UNCHANGED <<k_stack, k_result>>

\* the caller is done with the outcome: _process_agent_update and the GUI's handlers
\* catch every exception
CallEnds(t) ==
  /\ k_pc[t] = "done"
  /\ k_pc' = [k_pc EXCEPT ![t] = "idle"]
  /\ k_op' = [k_op EXCEPT ![t] = "none"]
  /\ k_result' = [k_result EXCEPT ![t] = "none"]
  /\ UNCHANGED k_stack
  /\ UNCHANGED <<agentFields, dbVars, stopped>>
  /\ UNCHANGED nonStoreVars

\* the WorkSession objects current_session or a thread's transaction refers to
Live(current, transactions) ==
  {current} \cup {transactions[t].of : t \in Callers}
            \cup {transactions[t].row : t \in Callers}

\* a WorkSession object nothing refers to is garbage: its fields are forgotten
Collected(objects, current, transactions) ==
  [i \in SessionIds |->
     IF i \in Live(current, transactions) THEN objects[i] ELSE NewWorkSession]

\* where WorkSession(...) puts the new object
FreshId == CHOOSE i \in SessionIds : i \notin Live(s_current_session, txn)

\* a statement of thread t on the database: it runs between another thread's
\* session row and that thread's commit when such a row is pending
Interleaves(t) == \E u \in Callers \ {t} : txn[u].row # 0

DbStatement(t) == interleaved' = (interleaved \/ Interleaves(t))

\* with self.db_lock: acquire
Acquire(t) == db_lock = -1 /\ db_lock' = t

\* leaving `with self.db_lock` releases the lock the thread holds
Release(t) == db_lock' = IF db_lock = t THEN -1 ELSE db_lock

\* ---- start_session ----

\* line 180: if self.current_session: self.end_session()
SsCheck(t) ==
  /\ k_pc[t] = "ss_check"
  /\ IF s_current_session # 0 THEN KCall(t, "es_check", "ss_new") ELSE KGoto(t, "ss_new")
  /\ UNCHANGED <<agentFields, dbVars, stopped>>
  /\ UNCHANGED nonStoreVars

\* line 183: self.current_session = WorkSession(start_time=time.time())
SsNew(t) ==
  /\ k_pc[t] = "ss_new"
  /\ s_current_session' = FreshId
  /\ s_objects' = [Collected(s_objects, FreshId, txn) EXCEPT ![FreshId] = NewWorkSession]
  /\ KGoto(t, "ss_reset")
  /\ UNCHANGED <<s_is_active, s_accumulator, s_warning_level, dbVars, stopped>>
  /\ UNCHANGED nonStoreVars

\* lines 184-185
SsReset(t) ==
  /\ k_pc[t] = "ss_reset"
  /\ s_accumulator' = 0
  /\ s_warning_level' = -1
  /\ KGoto(t, "ss_active")
  /\ UNCHANGED <<s_current_session, s_is_active, s_objects, dbVars, stopped>>
  /\ UNCHANGED nonStoreVars

\* line 186
SsActive(t) ==
  /\ k_pc[t] = "ss_active"
  /\ s_is_active' = TRUE
  /\ KReturn(t)
  /\ UNCHANGED <<s_current_session, s_accumulator, s_warning_level, s_objects,
                 dbVars, stopped>>
  /\ UNCHANGED nonStoreVars

\* ---- end_session ----

\* lines 194-196
EsCheck(t) ==
  /\ k_pc[t] = "es_check"
  /\ IF s_current_session = 0 THEN KReturn(t) ELSE KGoto(t, "es_end")
  /\ UNCHANGED <<agentFields, dbVars, stopped>>
  /\ UNCHANGED nonStoreVars

\* line 198: self.current_session.end_time = time.time()
EsEnd(t) ==
  /\ k_pc[t] = "es_end"
  /\ IF s_current_session = 0
       THEN KRaise(t, "AttributeError") /\ UNCHANGED s_objects
       ELSE /\ s_objects' = [s_objects EXCEPT ![s_current_session].end_time_set = TRUE]
            /\ KGoto(t, "es_dur")
  /\ UNCHANGED <<s_current_session, s_is_active, s_accumulator, s_warning_level, dbVars, stopped>>
  /\ UNCHANGED nonStoreVars

\* lines 199-203: the accumulator is stored in the object, and the object's events
\* and warnings are printed, all through self.current_session
EsDur(t) ==
  /\ k_pc[t] = "es_dur"
  /\ IF s_current_session = 0
       THEN KRaise(t, "AttributeError") /\ UNCHANGED s_objects
       ELSE /\ s_objects' = [s_objects EXCEPT
                               ![s_current_session].total_bad_posture_duration =
                                  s_accumulator]
            /\ KGoto(t, "es_lock")
  /\ UNCHANGED <<s_current_session, s_is_active, s_accumulator, s_warning_level, dbVars, stopped>>
  /\ UNCHANGED nonStoreVars

\* line 205: with self.db_lock
EsLock(t) ==
  /\ k_pc[t] = "es_lock"
  /\ Acquire(t)
  /\ KGoto(t, "es_row")
  /\ UNCHANGED <<agentFields, db_last, txn, interleaved, stopped>>
  /\ UNCHANGED nonStoreVars

\* lines 206-222: INSERT INTO work_sessions, with the fields of self.current_session
EsRow(t) ==
  /\ k_pc[t] = "es_row"
  /\ IF s_current_session = 0
       THEN KRaise(t, "AttributeError") /\ Release(t) /\ UNCHANGED <<txn, interleaved>>
       ELSE /\ txn' = [txn EXCEPT
                         ![t].row = s_current_session,
                         ![t].total_bad_posture_duration =
                            s_objects[s_current_session].total_bad_posture_duration,
                         ![t].total_warnings = s_objects[s_current_session].total_warnings]
            /\ DbStatement(t)
            /\ KGoto(t, "es_loop")
            /\ UNCHANGED db_lock
  /\ UNCHANGED <<agentFields, db_last, stopped>>
  /\ UNCHANGED nonStoreVars

\* line 225: for event in self.current_session.events
EsLoop(t) ==
  /\ k_pc[t] = "es_loop"
  /\ IF s_current_session = 0
       THEN KRaise(t, "AttributeError") /\ Release(t) /\ txn' = [txn EXCEPT ![t] = NoTxn]
       ELSE /\ txn' = [txn EXCEPT ![t].of = s_current_session]
            /\ KGoto(t, "es_event")
            /\ UNCHANGED db_lock
  /\ UNCHANGED <<agentFields, db_last, interleaved, stopped>>
  /\ UNCHANGED nonStoreVars

\* lines 226-246: INSERT INTO posture_events for the next event of the list
EsEvent(t) ==
  /\ k_pc[t] = "es_event"
  /\ txn[t].events < s_objects[txn[t].of].events
  /\ txn' = [txn EXCEPT ![t].events = @ + 1]
  /\ DbStatement(t)
  /\ KGoto(t, "es_event")
  /\ UNCHANGED <<agentFields, db_lock, db_last, stopped>>
  /\ UNCHANGED nonStoreVars

\* a variant of CommittedRow below in which the event rows are not part of the
\* transaction
CommittedRow_NoEvents(t) ==
  [events |-> 0,
   total_bad_posture_duration |-> txn[t].total_bad_posture_duration,
   total_warnings |-> txn[t].total_warnings]

\* what thread t's transaction holds: the session row of lines 207-222 and the
\* event rows of lines 225-246
CommittedRow(t) ==
  [events |-> txn[t].events,
   total_bad_posture_duration |-> txn[t].total_bad_posture_duration,
   total_warnings |-> txn[t].total_warnings]

\* the list is exhausted: leaving `with sqlite3.connect(...)` commits the row and
\* its events, leaving `with self.db_lock` releases the lock
EsCommit(t) ==
  /\ k_pc[t] = "es_event"
  /\ txn[t].events >= s_objects[txn[t].of].events
  /\ db_last' = CommittedRow(t)
  /\ txn' = [txn EXCEPT ![t] = NoTxn]
  /\ DbStatement(t)
  /\ Release(t)
  /\ KGoto(t, "es_stats")
  /\ s_objects' = Collected([s_objects EXCEPT ![txn[t].row].rows = @ + 1],
                           s_current_session, txn')
  /\ UNCHANGED <<s_current_session, s_is_active, s_accumulator, s_warning_level,
                 stopped>>
  /\ UNCHANGED nonStoreVars

\* lines 248-259: the statistics are computed through self.current_session
EsStats(t) ==
  /\ k_pc[t] = "es_stats"
  /\ IF s_current_session = 0 THEN KRaise(t, "AttributeError") ELSE KGoto(t, "es_clear")
  /\ UNCHANGED <<agentFields, dbVars, stopped>>
  /\ UNCHANGED nonStoreVars

\* line 261
EsClear(t) ==
  /\ k_pc[t] = "es_clear"
  /\ s_current_session' = 0
  /\ s_objects' = Collected(s_objects, 0, txn)
  /\ KGoto(t, "es_inactive")
  /\ UNCHANGED <<s_is_active, s_accumulator, s_warning_level, dbVars, stopped>>
  /\ UNCHANGED nonStoreVars

\* line 262
EsInactive(t) ==
  /\ k_pc[t] = "es_inactive"
  /\ s_is_active' = FALSE
  /\ KReturn(t)
  /\ UNCHANGED <<s_current_session, s_accumulator, s_warning_level, s_objects,
                 dbVars, stopped>>
  /\ UNCHANGED nonStoreVars

\* the positions at which a thread executes a statement of sqlite3
InDb(t) == k_pc[t] \in {"es_row", "es_loop", "es_event", "fb_insert", "sm_query"}

\* a variant of DbFails below in which the rows written before the failure stay
\* in the database
DbFails_NoRollback(t) ==
  /\ InDb(t)
  /\ db_last' = IF txn[t].row # 0 THEN CommittedRow(t) ELSE db_last
  /\ txn' = [txn EXCEPT ![t] = NoTxn]
  /\ Release(t)
  /\ KRaise(t, "sqlite3.Error")
  /\ s_objects' = Collected(IF txn[t].row # 0
                              THEN [s_objects EXCEPT ![txn[t].row].rows = @ + 1]
                              ELSE s_objects,
                            s_current_session, txn')
  /\ UNCHANGED <<s_current_session, s_is_active, s_accumulator, s_warning_level,
                 interleaved, stopped>>
  /\ UNCHANGED nonStoreVars

\* a statement of sqlite3 raises (the disk is full, the file is locked by another
\* process): the connection's context manager rolls the transaction back, db_lock
\* is released and the exception leaves the agent
DbFails(t) ==
  /\ InDb(t)
  /\ txn' = [txn EXCEPT ![t] = NoTxn]
  /\ Release(t)
  /\ KRaise(t, "sqlite3.Error")
  /\ s_objects' = Collected(s_objects, s_current_session, txn')
  /\ UNCHANGED <<s_current_session, s_is_active, s_accumulator, s_warning_level,
                 db_last, interleaved, stopped>>
  /\ UNCHANGED nonStoreVars

\* ---- process_posture_update ----

\* a worker thread starts with should_be_active() still to be evaluated
BeginUpdate(t) ==
  /\ t \in Workers
  /\ ~stopped
  /\ KBegin(t, "process_posture_update", "pu_gate")
  /\ UNCHANGED <<agentFields, dbVars, stopped>>
  /\ UNCHANGED nonStoreVars

\* lines 268-274: should_be_active() returned active
PuGate(t, active) ==
  /\ k_pc[t] = "pu_gate"
  /\ IF ~active
       THEN IF s_is_active THEN KCall(t, "es_check", "pu_none") ELSE KGoto(t, "pu_none")
       ELSE IF ~s_is_active THEN KCall(t, "ss_check", "pu_body") ELSE KGoto(t, "pu_body")
  /\ UNCHANGED <<agentFields, dbVars, stopped>>
  /\ UNCHANGED nonStoreVars

\* line 271: return None
PuNone(t) ==
  /\ k_pc[t] = "pu_none"
  /\ KReturn(t)
  /\ UNCHANGED <<agentFields, dbVars, stopped>>
  /\ UNCHANGED nonStoreVars

\* lines 276-357: the state change may append an event to the open session (lines
\* 307-308) and change the accumulator; the warning loop may return a warning,
\* which sets the level and counts in the open session (lines 333-336)
PuBody(t, appends, warns, accumulated) ==
  /\ k_pc[t] = "pu_body"
  /\ appends => (s_current_session # 0 /\ s_objects[s_current_session].events < MaxEvents)
  /\ warns => s_warning_level = -1
  /\ s_objects' =
       IF s_current_session = 0 THEN s_objects
       ELSE [s_objects EXCEPT
              ![s_current_session].events = IF appends THEN @ + 1 ELSE @,
              ![s_current_session].total_warnings = IF warns THEN @ + 1 ELSE @]
  /\ s_warning_level' = IF warns THEN 0 ELSE s_warning_level
  /\ s_accumulator' = accumulated
  /\ KReturn(t)
  /\ UNCHANGED <<s_current_session, s_is_active, dbVars, stopped>>
  /\ UNCHANGED nonStoreVars

\* ---- the GUI thread ----

\* toggle_monitoring, starting: the camera's callbacks begin
ToggleStart ==
  /\ stopped
  /\ k_pc[GuiThread] = "idle"
  /\ stopped' = FALSE
  /\ UNCHANGED <<agentFields, dbVars, k_pc, k_stack, k_op, k_result>>
  /\ UNCHANGED nonStoreVars

\* toggle_monitoring, stopping (main_gui.py 205-211): camera_manager.stop(), then
\* agent.end_session()
ToggleStop ==
  /\ ~stopped
  /\ KBegin(GuiThread, "end_session", "es_check")
  /\ stopped' = TRUE
  /\ UNCHANGED <<agentFields, dbVars>>
  /\ UNCHANGED nonStoreVars

\* record_feedback (lines 413-423), from the notification's buttons
BeginFeedback ==
  /\ KBegin(GuiThread, "record_feedback", "fb_lock")
  /\ UNCHANGED <<agentFields, dbVars, stopped>>
  /\ UNCHANGED nonStoreVars

\* a variant of FbLock below: record_feedback's insert without `with self.db_lock`
FbInsert_Unlocked(t) ==
  /\ k_pc[t] = "fb_lock"
  /\ DbStatement(t)
  /\ KReturn(t)
  /\ UNCHANGED <<agentFields, db_lock, db_last, txn, stopped>>
  /\ UNCHANGED nonStoreVars

\* line 415: with self.db_lock
FbLock(t) ==
  /\ k_pc[t] = "fb_lock"
  /\ Acquire(t)
  /\ KGoto(t, "fb_insert")
  /\ UNCHANGED <<agentFields, db_last, txn, interleaved, stopped>>
  /\ UNCHANGED nonStoreVars

\* INSERT INTO user_feedback, the commit and the release of db_lock
FbInsert(t) ==
  /\ k_pc[t] = "fb_insert"
  /\ DbStatement(t)
  /\ Release(t)
  /\ KReturn(t)
  /\ UNCHANGED <<agentFields, db_last, txn, stopped>>
  /\ UNCHANGED nonStoreVars

\* get_daily_summary (lines 425-458), from the summary button
BeginSummary ==
  /\ KBegin(GuiThread, "get_daily_summary", "sm_lock")
  /\ UNCHANGED <<agentFields, dbVars, stopped>>
  /\ UNCHANGED nonStoreVars

SmLock(t) ==
  /\ k_pc[t] = "sm_lock"
  /\ Acquire(t)
  /\ KGoto(t, "sm_query")
  /\ UNCHANGED <<agentFields, db_last, txn, interleaved, stopped>>
  /\ UNCHANGED nonStoreVars

\* SELECT ... FROM work_sessions, and the release of db_lock
SmQuery(t) ==
  /\ k_pc[t] = "sm_query"
  /\ DbStatement(t)
  /\ Release(t)
  /\ KReturn(t)
  /\ UNCHANGED <<agentFields, db_last, txn, stopped>>
  /\ UNCHANGED nonStoreVars

CallerStep(t) ==
  \/ SsCheck(t) \/ SsNew(t) \/ SsReset(t) \/ SsActive(t)
  \/ EsCheck(t) \/ EsEnd(t) \/ EsDur(t) \/ EsLock(t) \/ EsRow(t) \/ EsLoop(t)
  \/ EsEvent(t) \/ EsCommit(t) \/ EsStats(t) \/ EsClear(t) \/ EsInactive(t)
  \/ \E active \in BOOLEAN : PuGate(t, active)
  \/ PuNone(t)
  \/ \E appends \in BOOLEAN, warns \in BOOLEAN, accumulated \in 0..1 :
       PuBody(t, appends, warns, accumulated)
  \/ FbLock(t) \/ FbInsert(t)
  \/ SmLock(t) \/ SmQuery(t)
  \/ CallEnds(t)

StoreNext ==
  \/ \E t \in Callers : CallerStep(t)
  \/ \E t \in Callers : DbFails(t)
  \/ \E t \in Workers : BeginUpdate(t)
  \/ ToggleStart
  \/ ToggleStop
  \/ BeginFeedback
  \/ BeginSummary

\* the agent with its callers' threads interleaved at statement level
StoreSpec == Init /\ [][StoreNext]_vars

\* every step thread t can take
StepOf(t) ==
  \/ CallerStep(t)
  \/ DbFails(t)
  \/ BeginUpdate(t)
  \/ (t = GuiThread /\ ToggleStart)
  \/ (t = GuiThread /\ ToggleStop)
  \/ (t = GuiThread /\ BeginFeedback)
  \/ (t = GuiThread /\ BeginSummary)

\* no other thread is inside a call
Alone(t) == \A u \in Callers \ {t} : k_pc[u] = "idle"

\* the agent when one call ends before the next begins (the single-writer pattern)
StoreSeqNext == \E t \in Callers : Alone(t) /\ StepOf(t)

StoreSeqSpec == Init /\ [][StoreSeqNext]_vars

\* a thread between the begin of its call and its first wait for db_lock, or
\* between its release of db_lock and the end of its call
Running(u) ==
  /\ k_pc[u] \notin {"idle", "done", "es_lock", "fb_lock", "sm_lock"}
  /\ ~InDb(u)

\* the agent when a thread is preempted only where it waits for db_lock or executes
\* a statement of sqlite3: every interleaving of the threads' database statements
StoreDbNext == \E t \in Callers : (\A u \in Callers \ {t} : ~Running(u)) /\ StepOf(t)

StoreDbSpec == Init /\ [][StoreDbNext]_vars

\* ------------------------------------------------------------------------
\* Claims on the session lifecycle
\* ------------------------------------------------------------------------

\* the row end_session() writes for the open session
ClosingRow ==
  [start_time |-> current_session.start_time, end_time |-> now,
   total_bad_posture_duration |-> bad_posture_accumulator,
   total_warnings |-> current_session.total_warnings]

\* start_session() was called directly and returned
StartSessionStep == ret' = -2 /\ now' = now /\ current_session'.open

\* C31: start_session() first closes an open session and writes its row, once;
\* afterwards a new session is open that began now and has no warnings, the
\* accumulator is 0, last_warning_level is -1 and is_active is true; at every
\* moment at most one session is open: whatever was open before is among the rows
C31_StartSessionReplaces ==
  [][StartSessionStep =>
       /\ current_session' = [open |-> TRUE, start_time |-> now, total_warnings |-> 0]
       /\ event' = NoEvent
       /\ bad_posture_accumulator' = 0
       /\ last_warning_level' = -1
       /\ is_active'
       /\ work_sessions' = IF current_session.open
                             THEN Append(work_sessions, ClosingRow)
                             ELSE work_sessions]_vars

\* start_session() replaced a session that had a warning and bad time: the row of
\* the old session is written, the new session starts from nothing
C31_Witness ==
  /\ ret = -2 /\ current_session.open /\ current_session.start_time = now
  /\ current_session.total_warnings = 0 /\ bad_posture_accumulator = 0
  /\ Len(work_sessions) = 1
  /\ work_sessions[1].total_warnings = 1
  /\ work_sessions[1].total_bad_posture_duration > 0
  /\ work_sessions[1].end_time = now

\* an update for which should_be_active() was false
InactiveUpdate == ret' = -1 /\ verdict' = "none"

\* C33: an update under a false activity policy ends the open session when
\* is_active was true, returns no notification and leaves current_state,
\* last_state_change, the accumulator and the warning level unchanged; an update
\* under a true policy with is_active false starts a session before it processes
\* the verdict; between calls is_active is true exactly when a session is open
C33_ActivityGating ==
  /\ [](is_active <=> current_session.open)
  /\ [][/\ InactiveUpdate =>
             /\ ~is_active' /\ ~current_session'.open
             /\ work_sessions' = IF is_active THEN Append(work_sessions, ClosingRow)
                                   ELSE work_sessions
             /\ UNCHANGED <<current_state, last_state_change, bad_posture_accumulator,
                            last_warning_level>>
        /\ (ActiveUpdate /\ ~is_active) =>
             /\ is_active' /\ current_session'.open
             /\ current_session'.start_time = now
             /\ current_session'.total_warnings = (IF ret' >= 0 THEN 1 ELSE 0)
             /\ last_warning_level' = (IF ret' >= 0 THEN 0 ELSE -1)
             /\ bad_posture_accumulator' =
                  (IF event'.state = "bad" THEN event'.duration ELSE 0)
             /\ work_sessions' = work_sessions
        /\ (ActiveUpdate /\ is_active) =>
             /\ is_active' /\ work_sessions' = work_sessions
             /\ current_session'.start_time = current_session.start_time]_vars

\* an update under a false policy ended a session in which the posture was bad
C33_Witness ==
  /\ ret = -1 /\ verdict = "none" /\ ~is_active /\ ~current_session.open
  /\ Len(work_sessions) = 1 /\ work_sessions[1].end_time = now
  /\ work_sessions[1].total_warnings = 1
  /\ current_state = "bad" /\ last_warning_level = 0

\* ------------------------------------------------------------------------
\* Claims on end_session, the store and the callers' threads
\* ------------------------------------------------------------------------

\* thread t takes a step from position pc
From(t, pc) == k_pc[t] = pc /\ k_pc'[t] # pc

\* thread t's transaction commits
Commits(t) == k_pc[t] = "es_event" /\ k_pc'[t] = "es_stats"

\* the row of the open session as the agent holds it
SessionRow ==
  [events |-> s_objects[s_current_session].events,
   total_bad_posture_duration |-> s_accumulator,
   total_warnings |-> s_objects[s_current_session].total_warnings]

\* C32: end_session() with no session open changes nothing and writes nothing;
\* with a session open it sets end_time, stores the accumulator as the session's
\* bad-posture duration, commits one row with all the events of the session, and
\* returns with no session open and is_active false
C32_EndSessionFlushes ==
  /\ [](\A t \in Callers :
          /\ (k_pc[t] = "done" /\ k_op[t] = "end_session" /\ k_result[t] = "returned")
               => (s_current_session = 0 /\ ~s_is_active)
          /\ k_pc[t] \in {"es_stats", "es_clear"}
               => (s_current_session # 0 /\ s_objects[s_current_session].rows = 1))
  /\ [][\A t \in Callers :
          /\ (From(t, "es_check") /\ s_current_session = 0) =>
               /\ UNCHANGED <<agentFields, dbVars>>
               /\ k_pc'[t] \in {"done", "pu_none", "ss_new"}
          /\ From(t, "es_end") =>
               s_objects'[s_current_session].end_time_set
          /\ From(t, "es_dur") =>
               s_objects'[s_current_session].total_bad_posture_duration = s_accumulator
          /\ Commits(t) =>
               /\ db_last' = SessionRow
               /\ s_objects[s_current_session].end_time_set
               /\ s_objects[s_current_session].rows = 0
               /\ s_objects'[s_current_session].rows = 1
               /\ db_lock' = -1
          /\ From(t, "es_inactive") =>
               (s_current_session = 0 /\ ~s_is_active')]_vars

\* the stop button's end_session() returned after it committed a session with an
\* event, a warning and bad time
C32_Witness ==
  /\ k_pc[GuiThread] = "done" /\ k_op[GuiThread] = "end_session"
  /\ k_result[GuiThread] = "returned"
  /\ db_last = [events |-> 1, total_bad_posture_duration |-> 1, total_warnings |-> 1]
  /\ s_current_session = 0 /\ ~s_is_active

\* a statement of sqlite3 fails in thread t's end_session()
FlushFails(t) ==
  /\ k_pc[t] \in {"es_row", "es_loop", "es_event"}
  /\ k_pc'[t] = "done" /\ k_result'[t] = "sqlite3.Error"

\* C34: a failing store write in end_session() reaches the caller as an exception;
\* nothing of the session is in the store, the session with its events, warnings
\* and accumulator is still the open session, is_active is as before the call and
\* db_lock is free; the end_session() that later succeeds writes the session's row
\* with all of that, once
C34_FailedFlushKeepsSession ==
  [][\A t \in Callers :
       /\ FlushFails(t) =>
            /\ s_current_session # 0 /\ s_current_session' = s_current_session
            /\ s_objects'[s_current_session] = s_objects[s_current_session]
            /\ s_objects[s_current_session].rows = 0
            /\ UNCHANGED <<s_is_active, s_accumulator, s_warning_level, db_last>>
            /\ db_lock' = -1 /\ txn'[t] = NoTxn
       /\ (k_op[t] = "end_session" /\ s_current_session # 0
           /\ k_pc[t] \in {"es_check", "es_end", "es_dur", "es_lock", "es_row",
                           "es_loop", "es_event"}
           /\ ~Commits(t)) =>
            /\ UNCHANGED <<s_current_session, s_is_active, s_accumulator,
                           s_warning_level>>
            /\ s_is_active
            /\ s_objects'[s_current_session].events =
                 s_objects[s_current_session].events
            /\ s_objects'[s_current_session].total_warnings =
                 s_objects[s_current_session].total_warnings
            /\ s_objects'[s_current_session].rows = 0
       /\ (Commits(t) /\ s_objects[s_current_session].end_time_set) =>
            /\ db_last' = SessionRow
            /\ s_objects[s_current_session].rows = 0
            /\ s_objects'[s_current_session].rows = 1]_vars

\* the stop button's end_session() failed on a session with an event, a warning
\* and bad time: the session is still open
C34_Witness ==
  /\ k_pc[GuiThread] = "done" /\ k_op[GuiThread] = "end_session"
  /\ k_result[GuiThread] = "sqlite3.Error"
  /\ s_current_session # 0 /\ s_is_active /\ s_accumulator = 1
  /\ s_objects[s_current_session].events = 1
  /\ s_objects[s_current_session].total_warnings = 1
  /\ s_objects[s_current_session].rows = 0
  /\ db_lock = -1

\* C35: every statement on the database runs under db_lock, and from a session's
\* row to the commit of its events the writing thread holds db_lock: no statement
\* of another thread falls between the row and the commit
C35_WritesSerialized ==
  /\ ~interleaved
  /\ \A t \in Callers :
       /\ InDb(t) => db_lock = t
       /\ txn[t].row # 0 => (db_lock = t /\ k_pc[t] \in {"es_loop", "es_event"})

\* a worker has written a session's row and its event and has not committed; the
\* GUI thread waits for db_lock in record_feedback
C35_Witness ==
  /\ k_pc[GuiThread] = "fb_lock"
  /\ \E w \in Workers :
       /\ txn[w].row # 0 /\ txn[w].events = 1 /\ k_pc[w] = "es_event"
       /\ db_lock = w
  /\ ~interleaved

\* C36: with the workers' updates and the GUI thread's end_session() interleaved at
\* statement level, no session's row is committed twice, no thread fails on
\* self.current_session being None, start_session() never replaces a session that
\* is open, and when the stop button's end_session() has returned and no worker is
\* inside a call no session is open and is_active is false
C36_ConcurrentCallersFlushOnce ==
  /\ [](/\ \A t \in Callers : k_result[t] # "AttributeError"
        /\ (/\ k_pc[GuiThread] = "done" /\ k_op[GuiThread] = "end_session"
            /\ k_result[GuiThread] = "returned"
            /\ \A w \in Workers : k_pc[w] = "idle")
             => (s_current_session = 0 /\ ~s_is_active))
  /\ [][\A t \in Callers :
          /\ Commits(t) => s_objects[txn[t].row].rows = 0
          /\ From(t, "ss_new") => s_current_session = 0]_vars

\* ------------------------------------------------------------------------
\* Claims on the durations a session records
\* ------------------------------------------------------------------------

\* C37: what an update records in its session was measured inside the session: an
\* appended event has a timestamp not before the session's start_time, and a
\* warning at index i is returned only when the session has lasted at least
\* thresholds[i] seconds, which the bad posture inside it cannot exceed
C37_DurationsInsideSession ==
  [][ActiveUpdate =>
       /\ event' # NoEvent => event'.timestamp >= current_session'.start_time
       /\ ret' >= 0 =>
            now - current_session'.start_time >= warning_thresholds[ret' + 1]]_vars

\* the bad-posture time of the open session up to now: the accumulator and the BAD
\* run in progress
BadTimeSoFar ==
  bad_posture_accumulator
    + (IF current_state = "bad" THEN now - last_state_change ELSE 0)

\* end_session() closes the open session, by the stop button or by an update
\* under a false activity policy
SessionClosed ==
  /\ current_session.open /\ ~current_session'.open
  /\ Len(work_sessions') = Len(work_sessions) + 1

\* C38: the row written at session close holds all the bad-posture time of the
\* session up to end_time: the accumulator and the time of a BAD run that is in
\* progress at the close
C38_PersistedBadDurationComplete ==
  [][SessionClosed =>
       work_sessions'[Len(work_sessions')].total_bad_posture_duration = BadTimeSoFar]_vars

\* ------------------------------------------------------------------------
\* Claims on the alert decision and on the presence signal
\* ------------------------------------------------------------------------

\* a step of should_trigger_alert(): nothing but its outcome changes
AlertCall == UNCHANGED <<now, keypoints, analyzed, metrics, raised, metrics_window>>

\* the positions of the window's samples of the last bad_posture_duration_threshold
\* seconds
RecentSamples ==
  {i \in 1..Len(metrics_window) :
     metrics_window[i].timestamp >= now - bad_posture_duration_threshold}

\* metric k exceeds its threshold in the sample at position i
Exceeds(i, k) ==
  LET m == metrics_window[i]
  IN \/ k = "neck_tilt" /\ m.neck_tilt_angle > neck_tilt_threshold
     \/ k = "head_pitch" /\ m.head_pitch > head_pitch_threshold
     \/ k = "torso_lean" /\ m.torso_lean > torso_lean_threshold
     \/ k = "shoulder_asymmetry" /\ m.shoulder_asymmetry > shoulder_asymmetry_threshold

\* C39: should_trigger_alert() returns true exactly when at least 2 * fps samples
\* are buffered, some sample is of the last bad_posture_duration_threshold seconds,
\* some metric exceeds its threshold in at least 60% of those recent samples, and
\* more than cooldown_duration has passed since the last alert; the last-alert
\* timestamp is set to the time of the call when it returns true and is left alone
\* when it returns false
C39_AlertExactlyWhen ==
  [][AlertCall =>
       /\ (alert' = "true") <=>
            /\ Len(metrics_window) >= 2 * fps
            /\ RecentSamples # {}
            /\ \E k \in Metrics :
                 100 * Cardinality({i \in RecentSamples : Exceeds(i, k)})
                   >= 60 * Cardinality(RecentSamples)
            /\ now - last_notification_time > cooldown_duration
       /\ last_notification_time' =
            (IF alert' = "true" THEN now ELSE last_notification_time)]_vars

\* the call returned true on a window whose older sample is upright and too old to
\* count, and whose recent sample is slouched
C39_Witness ==
  /\ alert = "true" /\ last_notification_time = now
  /\ Len(metrics_window) = 2
  /\ 1 \notin RecentSamples /\ 2 \in RecentSamples
  /\ \A k \in Metrics : ~Exceeds(1, k)
  /\ \E k \in Metrics : Exceeds(2, k)
  /\ \E k \in Metrics : ~Exceeds(2, k)

\* ------------------------------------------------------------------------
\* PostureCameraManager: the stability of the presence signal
\* ------------------------------------------------------------------------

\* self.detection_stability_frames
detection_stability_frames == 5

\* set_person_detection_callback(callback)
SetPersonDetectionCallback ==
  /\ ~person_detection_callback
  /\ person_detection_callback' = TRUE
  /\ UNCHANGED <<person_frames, no_person_frames, frame_history, callback_made>>
  /\ UNCHANGED nonCameraVars

\* a variant of Stable below that is content with one frame less
Stable_OneFrameLess(count) == count >= detection_stability_frames - 1

\* the test of a counter against detection_stability_frames
Stable(count) == count >= detection_stability_frames

\* the detections of the last detection_stability_frames frames
Remember(history, detected) ==
  LET h == Append(history, detected)
  IN IF Len(h) > detection_stability_frames THEN Tail(h) ELSE h

\* update_person_detection_state(person_detected_current_frame), called by
\* process_frame for every frame on which the detection ran
UpdatePersonDetectionState(detected) ==
  /\ IF detected
       THEN /\ person_frames < MaxFrames
            /\ person_frames' = person_frames + 1
            /\ no_person_frames' = 0
            /\ callback_made' =
                 IF Stable(person_frames') /\ person_detection_callback
                   THEN "true" ELSE "none"
       ELSE /\ no_person_frames < MaxFrames
            /\ no_person_frames' = no_person_frames + 1
            /\ person_frames' = 0
            /\ callback_made' =
                 IF Stable(no_person_frames') /\ person_detection_callback
                   THEN "false" ELSE "none"
  /\ frame_history' = Remember(frame_history, detected)
  /\ UNCHANGED person_detection_callback
  /\ UNCHANGED nonCameraVars

CameraNext ==
  \/ SetPersonDetectionCallback
  \/ \E detected \in BOOLEAN : UpdatePersonDetectionState(detected)

CameraSpec == Init /\ [][CameraNext]_vars

\* the newest n frames all have detection d
LastFramesAll(n, d) ==
  /\ Len(frame_history) >= n
  /\ \A i \in (Len(frame_history) - n + 1)..Len(frame_history) : frame_history[i] = d

\* C40: callback(True) is made on a frame only if that frame and the 4 frames
\* before it all detected a person, callback(False) only if that frame and the 4
\* before it all detected nobody; the two counters are never both positive
C40_PresenceSignalStable ==
  /\ callback_made = "true" => LastFramesAll(5, TRUE)
  /\ callback_made = "false" => LastFramesAll(5, FALSE)
  /\ ~(person_frames > 0 /\ no_person_frames > 0)

\* the fifth frame in a row with nobody in it: the first callback(False) of an
\* absence
C40_Witness ==
  /\ callback_made = "false"
  /\ no_person_frames = 5 /\ person_frames = 0
  /\ frame_history = <<FALSE, FALSE, FALSE, FALSE, FALSE>>
  /\ person_detection_callback

====
